---- MODULE Spec2Model ----
(***************************************************************************)
(* Model of the RPC dispatch subsystem of myack (src/python/myack/rpc):     *)
(* Namespace / Dispatcher / APIVersion / API of api.py and the per-item     *)
(* handling of transport.py (HTTPRoutes.handle_raw).                        *)
(*                                                                          *)
(* The object graph the model dispatches on is the one of the test-suite    *)
(* (tests/rpc/test_api.py, tests/rpc/test_transport.py): an API "App" with  *)
(* three middleware, a namespace foo with nested namespaces below it, and   *)
(* the APIVersion dispatchers listed in depends_on.                         *)
(***************************************************************************)
EXTENDS Integers, Sequences, FiniteSets, TLC

VARIABLES
    depends_on,     \* API.depends_on: the APIVersion components, in registration order
    phase,          \* "new" before on_setup, "ready" after it, "down" after on_shutdown
    attributes,     \* the instance attributes on_setup has set and on_shutdown not deleted
    _middlewares,   \* component -> Namespace._middlewares (sorted at setup)
    _methods,       \* dispatcher -> Dispatcher._methods (dict: sequence of <<name, MethodDef>>)
    _versions,      \* API._versions (dict major -> dict minor -> APIVersion)
    body,           \* the decoded body of the exchange (raw_request), None before it arrives
    items,          \* item -> the state of one handle_raw call (task, Request, Response)
    task,           \* the task that runs handle_json: "none", "running", "cancelling"
                    \* (cancel() was called on it), "cancelled", "returned", "raised"
                    \* (an exception other than CancelledError left handle_json)
    json_response,  \* what handle_json returned (dumped, before the bytes), None before that
    json_request,   \* the bytes of the body handle_json was given, "" before it arrives
    enabled,        \* namespace -> Namespace.enabled
    registry,       \* BaseExc.registry: code -> class
    classes,        \* the subclasses of BaseExc that exist: class -> its definition
    exc_out,        \* the last call into myack/exc.py and how it ended
    time,           \* what time.time() returns, in ticks
    _current,       \* Timer._current: None, or the float in a 1-tuple
    _updated,       \* Timer._updated: None, or the float in a 1-tuple
    timer_out       \* the last call into the Timer, with tsnow() before and after it

vars == <<depends_on, phase, attributes, _middlewares, _methods, _versions, body, items,
          task, json_response, json_request, enabled, registry, classes, exc_out,
          time, _current, _updated, timer_out>>

tables == <<depends_on, phase, attributes, _middlewares, _methods, _versions, enabled>>

\* the taxonomy of exceptions, process-wide
taxonomy == <<registry, classes>>

\* the Timer component and the clock it reads
chrono == <<time, _current, _updated, timer_out>>

\* everything of one API and its exchange
rpc == <<depends_on, phase, attributes, _middlewares, _methods, _versions, body, items,
         task, json_response, json_request, enabled>>

(***************************************************************************)
(* Bounds of the model.                                                     *)
(***************************************************************************)
\* largest minor version a registered APIVersion declares
MaxMinor == 2
\* depth of the chain of nested namespaces foo.nested. ... below a dispatcher
MaxDepth == 3
\* largest number of items in a batch
MaxBatch == 2
\* largest number of exception classes defined after the import of myack.rpc.exc
MaxDefined == 1
\* largest value of time.time(), the clock starting at 0
MaxTime == 3
\* largest number of calls of goto, shift and reset on the Timer
MaxCalls == 3

Majors == {1, 2}
Minors == 0 .. MaxMinor
\* versions a client asks for: also a major and a minor nobody registered
ReqMajors == Majors \cup {3}
ReqMinors == 0 .. (MaxMinor + 1)

\* Python's None, where the other values are tuples
None == <<>>

(***************************************************************************)
(* Python dict: insertion ordered, a sequence of <<key, value>> pairs.      *)
(***************************************************************************)
\* the position of key k, 0 when it is absent
RECURSIVE DictIndex(_, _)
DictIndex(d, k) ==
    IF d = <<>> THEN 0
    ELSE IF d[Len(d)][1] = k THEN Len(d)
    ELSE DictIndex(SubSeq(d, 1, Len(d) - 1), k)

DictHas(d, k) == DictIndex(d, k) /= 0

DictGet(d, k) == d[DictIndex(d, k)][2]

\* d[k] = v: a present key keeps its position, a new key goes last
DictSet(d, k, v) ==
    IF DictHas(d, k)
    THEN [d EXCEPT ![DictIndex(d, k)] = <<k, v>>]
    ELSE Append(d, <<k, v>>)

DictKeys(d) == [n \in 1 .. Len(d) |-> d[n][1]]

DictValues(d) == [n \in 1 .. Len(d) |-> d[n][2]]

RECURSIVE DictFromPairs(_)
DictFromPairs(pairs) ==
    IF pairs = <<>> THEN <<>>
    ELSE DictSet(DictFromPairs(SubSeq(pairs, 1, Len(pairs) - 1)),
                 pairs[Len(pairs)][1], pairs[Len(pairs)][2])

Range(s) == {s[n] : n \in 1 .. Len(s)}

(***************************************************************************)
(* Exception classes (myack/exc.py, myack/rpc/exc.py and the handlers' own) *)
(* with the classes each is an instance of.                                 *)
(***************************************************************************)
RPCErrors ==
    {"RPCParseError", "RPCInvalidRequest", "RPCUnsupportedVersion",
     "RPCUndefinedMethod", "RPCInvalidParams", "RPCInternalError"}

\* coded errors a handler or a middleware of the application defines
AppErrors == {"DivisionByZero", "NotFound", "Unauthorized"}

\* exceptions outside the taxonomy
PlainErrors == {"ZeroDivisionError", "KeyError"}

\* asyncio.CancelledError: an Exception on the supported Pythons (3.6, 3.7)
CancelledError == "CancelledError"

Bases(cls) ==
    IF cls \in RPCErrors THEN {cls, "RPCError", "BaseError", "BaseExc", "Exception"}
    ELSE IF cls \in AppErrors THEN {cls, "BaseError", "BaseExc", "Exception"}
    ELSE IF cls = "ZeroDivisionError" THEN {cls, "ArithmeticError", "Exception"}
    ELSE {cls, "Exception"}

\* isinstance(e, types) for a tuple (or a single class) of types
IsInstance(cls, types) == Bases(cls) \cap types /= {}

NoExc == [cls |-> "", data |-> <<>>, by |-> ""]

\* BaseExc.__init__(**data); `by` records who raised it
Exc(cls, data, by) == [cls |-> cls, data |-> data, by |-> by]

\* dict.update(method=..., version=...)
DataUpdate(data, upd) ==
    [k \in (DOMAIN data) \cup (DOMAIN upd) |->
        IF k \in DOMAIN upd THEN upd[k] ELSE data[k]]

(***************************************************************************)
(* The taxonomy of coded exceptions (myack/exc.py): class definition,       *)
(* instances, dump and dispatch.                                            *)
(***************************************************************************)
\* message: Optional[str] = None
NoMessage == "null"

\* class name(base, code=short): message: str = message
ClassDef(name, base, short, message) ==
    [name |-> name, base |-> base, short |-> short, message |-> message]

\* the class statements of myack/exc.py and myack/rpc/exc.py, in import order
ImportedClasses ==
    << ClassDef("UndefinedExc", "BaseExc", "undefined", "Undefined exception"),
       ClassDef("BaseWarning", "BaseExc", "warning", NoMessage),
       ClassDef("BaseError", "BaseExc", "error", NoMessage),
       ClassDef("RPCWarning", "BaseWarning", "rpc", NoMessage),
       ClassDef("RPCDeprecatedVersion", "RPCWarning", "deprecated",
                "API version is deprecated"),
       ClassDef("RPCError", "BaseError", "rpc", NoMessage),
       ClassDef("RPCParseError", "RPCError", "parse", "Parse error"),
       ClassDef("RPCInvalidRequest", "RPCError", "invalid_request", "Invalid request"),
       ClassDef("RPCUnsupportedVersion", "RPCError", "unsupported_version",
                "Unsupported API version"),
       ClassDef("RPCUndefinedMethod", "RPCError", "undefined_method", "Undefined method"),
       ClassDef("RPCInvalidParams", "RPCError", "invalid_params", "Invalid parameters"),
       ClassDef("RPCInternalError", "RPCError", "internal", "Internal server error") >>

\* a __init_subclass__ that forgets the code of the parent
ComposeCodeShort(cls_table, def) == def.short

\* __init_subclass__: f"{cls.code}.{code}", and code alone when cls.code is
\* an AttributeError (BaseExc has the annotation only)
ComposeCode(cls_table, def) ==
    IF def.base \in DOMAIN cls_table
    THEN cls_table[def.base].code \o "." \o def.short
    ELSE def.short

\* a __init_subclass__ without the assertion: the later class takes the code
InitSubclassNoAssert(reg, cls_table, def) ==
    LET code == ComposeCode(cls_table, def)
    IN [raised |-> "",
        registry |-> [c \in DOMAIN reg \cup {code} |->
                        IF c = code THEN def.name ELSE reg[c]],
        classes |-> [n \in DOMAIN cls_table \cup {def.name} |->
                        IF n = def.name
                        THEN [base |-> def.base, short |-> def.short, code |-> code,
                              message |-> def.message]
                        ELSE cls_table[n]]]

\* BaseExc.__init_subclass__ for the class statement def: an AssertionError
\* leaves the class statement, and no class comes to exist
InitSubclass(reg, cls_table, def) ==
    LET code == ComposeCode(cls_table, def)
    IN IF code \in DOMAIN reg
       THEN [raised |-> "AssertionError", registry |-> reg, classes |-> cls_table]
       ELSE [raised |-> "",
             registry |-> [c \in DOMAIN reg \cup {code} |->
                             IF c = code THEN def.name ELSE reg[c]],
             classes |-> [n \in DOMAIN cls_table \cup {def.name} |->
                             IF n = def.name
                             THEN [base |-> def.base, short |-> def.short, code |-> code,
                                   message |-> def.message]
                             ELSE cls_table[n]]]

\* the registry and the classes after the first n class statements of the import
RECURSIVE Imported(_)
Imported(n) ==
    IF n = 0 THEN [raised |-> "", registry |-> <<>>, classes |-> <<>>]
    ELSE LET before == Imported(n - 1)
         IN InitSubclass(before.registry, before.classes, ImportedClasses[n])

\* cls.message: the class's own, or the one of the nearest base that has one
RECURSIVE MessageOf(_, _)
MessageOf(cls_table, name) ==
    IF name \notin DOMAIN cls_table THEN NoMessage
    ELSE IF cls_table[name].message /= NoMessage THEN cls_table[name].message
    ELSE MessageOf(cls_table, cls_table[name].base)

\* how a call ends: with an exception, or with a value
Raises(cls) == [raised |-> cls, value |-> None]

Returns(value) == [raised |-> "", value |-> value]

\* an instance: its class and its args (code, message, data)
Instance(cls, code, message, data) ==
    [cls |-> cls, code |-> code, message |-> message, data |-> data]

\* `message or self.message`
Truthy(message) == message \notin {NoMessage, ""}

\* cls(message, **data), BaseExc.__init__(self, message=None, **data): a
\* keyword that names a parameter is a TypeError
New(cls_table, name, message, data) ==
    IF DOMAIN data \cap {"self", "message"} /= {} THEN Raises("TypeError")
    ELSE LET msg == IF Truthy(message) THEN message ELSE MessageOf(cls_table, name)
         IN IF msg = NoMessage THEN Raises("AssertionError")
            ELSE Returns(Instance(name, cls_table[name].code, msg, data))

\* BaseExc.dump
DumpInstance(v) == [code |-> v.code, message |-> v.message, data |-> v.data]

\* BaseExc.__eq__: type(self) is type(other) and self.args == other.args
InstanceEq(a, b) ==
    /\ a.cls = b.cls
    /\ <<a.code, a.message, a.data>> = <<b.code, b.message, b.data>>

\* BaseExc.dispatch(code, message, **data), a classmethod: cls, code and
\* message are its parameters
Dispatch(reg, cls_table, code, message, data) ==
    IF DOMAIN data \cap {"cls", "code", "message"} /= {} THEN Raises("TypeError")
    ELSE IF code \in DOMAIN reg THEN New(cls_table, reg[code], message, data)
    ELSE New(cls_table, "UndefinedExc", NoMessage,
             [original |-> [code |-> code, message |-> message, data |-> data]])

(***************************************************************************)
(* The object graph.  Components: "App" (the API), "v1", "v2", ... (the     *)
(* APIVersion at that position of depends_on) and the namespaces "ns1"      *)
(* (attribute foo), "ns2" (foo.nested), ...                                 *)
(***************************************************************************)
VersionClasses ==
    {[version |-> <<M, m>>, deprecated |-> (M = 1)] : M \in Majors, m \in Minors}

DependsOnChoices ==
    {<<>>} \cup {<<a>> : a \in VersionClasses}
           \cup {<<a, b>> : a \in VersionClasses, b \in VersionClasses}

VName(n) == "v" \o ToString(n)

NsId(k) == "ns" \o ToString(k)

\* the attribute under which the namespace of level k hangs on its parent
NsName(k) ==
    IF k = 1 THEN "foo" ELSE IF k = 2 THEN "nested" ELSE "n" \o ToString(k)

Namespaces == {NsId(k) : k \in 1 .. MaxDepth}

NsLevel(c) == CHOOSE k \in 1 .. MaxDepth : NsId(k) = c

VersionIds(deps) == {VName(n) : n \in 1 .. Len(deps)}

VIndex(deps, c) == CHOOSE n \in 1 .. Len(deps) : VName(n) = c

Dispatchers(deps) == {"App"} \cup VersionIds(deps)

Components(deps) == Dispatchers(deps) \cup Namespaces

\* Namespace.enabled (class attribute, True unless the class says otherwise)
Enabled(c) == IF c \in DOMAIN enabled THEN enabled[c] ELSE TRUE

\* validx.Dict({"x": validx.Int(), "y": validx.Int()}) and validx.Dict({})
SchemaXY == [x |-> "int", y |-> "int"]

SchemaEmpty == <<>>

\* validx.Dict({"x": validx.Int(), "injection": validx.Int()}): a schema that
\* lets the client send the key a middleware injects
SchemaXInjection == [x |-> "int", injection |-> "int"]

\* @handler(shield=..., raises=..., schema=...); sig: the parameters of its signature
Handler(name, shield, raises, schema, sig) ==
    [name |-> name, kind |-> "handler", ref |-> "", order |-> 0,
     shield |-> shield, raises |-> raises, schema |-> schema, sig |-> sig]

\* @middleware(order)
Middleware(name, order) ==
    [name |-> name, kind |-> "middleware", ref |-> "", order |-> order,
     shield |-> FALSE, raises |-> {}, schema |-> <<>>, sig |-> {}]

\* an attribute that is a component: a Namespace or a Dispatcher
Child(name, kind, ref) ==
    [name |-> name, kind |-> kind, ref |-> ref, order |-> 0,
     shield |-> FALSE, raises |-> {}, schema |-> <<>>, sig |-> {}]

\* dir(self) without the private names, in dir()'s alphabetical order
Attrs(c, deps) ==
    IF c = "App" THEN
        << Child("foo", "namespace", NsId(1)),
           Middleware("injector", 3),
           Handler("list_exceptions", FALSE, {}, SchemaEmpty, {}),
           Handler("list_methods", FALSE, {}, SchemaEmpty, {}),
           Handler("list_versions", FALSE, {}, SchemaEmpty, {}),
           Middleware("middleware_1", 1),
           Middleware("middleware_2", 2),
           Handler("scale", TRUE, {}, SchemaXInjection, {"x", "injection"}),
           Handler("sum", FALSE, {}, SchemaXY, {"x", "y"}),
           Handler("unserializable", TRUE, {}, SchemaEmpty, {}) >>
        \o [n \in 1 .. Len(deps) |-> Child(VName(n), "dispatcher", VName(n))]
    ELSE IF c \in VersionIds(deps) THEN
        << Child("foo", "namespace", NsId(1)),
           Handler("list_exceptions", FALSE, {}, SchemaEmpty, {}),
           Handler("list_methods", FALSE, {}, SchemaEmpty, {}),
           Middleware("middleware_1", 1),
           Middleware("middleware_2", 2),
           Middleware("set_version_info", 100) >>
    ELSE IF c = NsId(1) THEN
        << Handler("div", TRUE, {"DivisionByZero"}, SchemaXY, {"x", "y", "injection"}),
           Middleware("middleware_1", 1),
           Middleware("middleware_2", 2),
           Handler("mod", TRUE, {"DivisionByZero", "NotFound"}, SchemaXY, {"x", "y"}) >>
        \o (IF MaxDepth > 1 THEN << Child(NsName(2), "namespace", NsId(2)) >> ELSE <<>>)
    ELSE
        << Handler("get_nothing", TRUE, {"ArithmeticError"}, SchemaEmpty, {}),
           Middleware("middleware_1", 1) >>
        \o (IF NsLevel(c) < MaxDepth
            THEN << Child(NsName(NsLevel(c) + 1), "namespace", NsId(NsLevel(c) + 1)) >>
            ELSE <<>>)

\* a bound method: the component it lives on and the attribute
Bound(c, attr) == [self |-> c, name |-> attr.name, order |-> attr.order]

(***************************************************************************)
(* Setup: Namespace.on_setup, Dispatcher.on_setup, API.on_setup.            *)
(***************************************************************************)
\* list.sort(key=order): stable
RECURSIVE InsertByOrder(_, _)
InsertByOrder(sorted, m) ==
    IF sorted = <<>> THEN <<m>>
    ELSE IF sorted[Len(sorted)].order <= m.order THEN Append(sorted, m)
    ELSE Append(InsertByOrder(SubSeq(sorted, 1, Len(sorted) - 1), m),
                sorted[Len(sorted)])

RECURSIVE SortByOrder(_)
SortByOrder(ms) ==
    IF ms = <<>> THEN <<>>
    ELSE InsertByOrder(SortByOrder(SubSeq(ms, 1, Len(ms) - 1)), ms[Len(ms)])

\* an on_setup that puts set_version_info before every other middleware
CollectVersionInfoFirst(c, deps) ==
    LET attrs == Attrs(c, deps)
        F[n \in 0 .. Len(attrs)] ==
            IF n = 0 THEN <<>>
            ELSE IF attrs[n].kind = "middleware" /\ attrs[n].name /= "set_version_info"
                 THEN Append(F[n - 1], Bound(c, attrs[n]))
                 ELSE F[n - 1]
        G[n \in 0 .. Len(attrs)] ==
            IF n = 0 THEN <<>>
            ELSE IF attrs[n].name = "set_version_info"
                 THEN Append(G[n - 1], Bound(c, attrs[n]))
                 ELSE G[n - 1]
    IN G[Len(attrs)] \o SortByOrder(F[Len(attrs)])

\* Namespace.on_setup: the attributes tagged rpc_middleware_info, sorted by order
CollectMiddlewares(c, deps) ==
    SortByOrder(
        LET attrs == Attrs(c, deps)
            F[n \in 0 .. Len(attrs)] ==
                IF n = 0 THEN <<>>
                ELSE IF attrs[n].kind = "middleware"
                     THEN Append(F[n - 1], Bound(c, attrs[n]))
                     ELSE F[n - 1]
        IN F[Len(attrs)])

MethodDef(name, handler, namespaces) ==
    [name |-> name, handler |-> handler, namespaces |-> namespaces]

\* the bound handler with its rpc_handler_info
HandlerOf(c, attr) ==
    [self |-> c, name |-> attr.name,
     info |-> [shield |-> attr.shield, raises |-> attr.raises,
               schema |-> attr.schema, sig |-> attr.sig]]

\* the prefix iter_methods hands to a child namespace
ChildPrefix(prefix, name) == name \o "."

\* an iter_methods that also descends into the dispatchers
DescendsAll(attr) ==
    /\ attr.kind \in {"namespace", "dispatcher"}
    /\ Enabled(attr.ref)

\* an iter_methods that does not look at enabled
DescendsDisabled(attr) ==
    /\ attr.kind \in {"namespace", "dispatcher"}
    /\ attr.kind /= "dispatcher"

\* isinstance(attr, Namespace) and not isinstance(attr, Dispatcher) and attr.enabled
Descends(attr) ==
    /\ attr.kind \in {"namespace", "dispatcher"}
    /\ attr.kind /= "dispatcher"
    /\ Enabled(attr.ref)

\* Namespace.iter_methods, over the attributes still to visit
RECURSIVE IterAttrs(_, _, _, _, _)
IterAttrs(c, attrs, deps, namespaces, prefix) ==
    IF attrs = <<>> THEN <<>>
    ELSE LET attr == Head(attrs)
             here ==
                 IF attr.kind = "handler"
                 THEN << MethodDef(prefix \o attr.name, HandlerOf(c, attr), namespaces) >>
                 ELSE IF Descends(attr)
                 THEN IterAttrs(attr.ref, Attrs(attr.ref, deps), deps,
                                Append(namespaces, attr.ref),
                                ChildPrefix(prefix, attr.name))
                 ELSE <<>>
         IN here \o IterAttrs(c, Tail(attrs), deps, namespaces, prefix)

iter_methods(c, deps) == IterAttrs(c, Attrs(c, deps), deps, <<>>, "")

\* Dispatcher.on_setup: {md.name: md for md in self.iter_methods()}
BuildMethods(c, deps) ==
    LET mds == iter_methods(c, deps)
    IN DictFromPairs([n \in 1 .. Len(mds) |-> <<mds[n].name, mds[n]>>])

\* tuple comparison of Version(major, minor)
VersionLE(a, b) == a[1] < b[1] \/ (a[1] = b[1] /\ a[2] <= b[2])

RECURSIVE InsertByVersion(_, _, _)
InsertByVersion(sorted, n, deps) ==
    IF sorted = <<>> THEN <<n>>
    ELSE IF VersionLE(deps[sorted[Len(sorted)]].version, deps[n].version)
         THEN Append(sorted, n)
    ELSE Append(InsertByVersion(SubSeq(sorted, 1, Len(sorted) - 1), n, deps),
                sorted[Len(sorted)])

\* a faulty on_setup that leaves the versions in registration order
UnsortedVersions(ns, deps) == ns

\* versions.sort(key=lambda v: v.version): stable; ns are positions in depends_on
RECURSIVE SortVersions(_, _)
SortVersions(ns, deps) ==
    IF ns = <<>> THEN <<>>
    ELSE InsertByVersion(SortVersions(SubSeq(ns, 1, Len(ns) - 1), deps), ns[Len(ns)], deps)

\* the loop of API.on_setup over the sorted versions
RECURSIVE GroupVersions(_, _)
GroupVersions(ns, deps) ==
    IF ns = <<>> THEN <<>>
    ELSE LET before == GroupVersions(SubSeq(ns, 1, Len(ns) - 1), deps)
             v      == deps[ns[Len(ns)]].version
             majors == IF DictHas(before, v[1]) THEN DictGet(before, v[1]) ELSE <<>>
         IN DictSet(before, v[1], DictSet(majors, v[2], VName(ns[Len(ns)])))

\* API.on_setup
BuildVersions(deps) ==
    GroupVersions(SortVersions([n \in 1 .. Len(deps) |-> n], deps), deps)

(***************************************************************************)
(* Requests, responses and the pure parts of dispatch.                      *)
(***************************************************************************)
\* Response.__init__
Response(id, meta, result, error, warnings) ==
    [id |-> id, meta |-> meta, result |-> result, error |-> error,
     warnings |-> warnings]

\* meta or {}: no version, no middleware tags
EmptyMeta == [version |-> None, middlewares |-> <<>>]

NoResult == "None"

\* a null id on the wire
NoId == "null"

\* Request.response(result=..., error=...)
RequestResponse(req, result, error) ==
    Response(req.id, EmptyMeta, result, error, <<>>)

\* the Python type of a decoded JSON scalar: ids are "1", "2", ... (numbers),
\* "true" (a boolean) and "'x'" (a string)
PyType(v) ==
    IF v = "true" THEN "bool" ELSE IF v = "'x'" THEN "str" ELSE "int"

\* isinstance(v, int): bool is a subclass of int
IsInstanceInt(v) == PyType(v) \in {"int", "bool"}

\* Request.schema applied to a payload: the offending keys with their messages
\* (validx.exc.format_error), the empty mapping when the payload passes
EnvelopeErrors(raw) ==
    IF raw.kind /= "dict" THEN [k \in {""} |-> "Expected type."]
    ELSE LET missing == {"id", "method"} \ raw.keys
             mistyped == {k \in {"id"} \cap raw.keys : PyType(raw.id) /= "int"}
         IN [k \in missing \cup mistyped |->
                IF k \in missing THEN "Required key is not provided."
                ELSE "Expected type."]

\* a handle_raw that echoes whatever the payload has under "id"
RecoveredIdAny(raw) ==
    IF raw.kind = "dict" /\ "id" \in raw.keys THEN raw.id ELSE NoId

\* handle_raw, except RPCInvalidRequest: the id recovered from the raw payload
RecoveredId(raw) ==
    IF raw.kind = "dict" /\ "id" \in raw.keys /\ IsInstanceInt(raw.id)
    THEN raw.id
    ELSE NoId

\* handle_raw: the Response of a payload Request.load refused
LoadFailed(raw) ==
    Response(RecoveredId(raw), EmptyMeta, NoResult,
             Exc("RPCInvalidRequest", [reason |-> EnvelopeErrors(raw)], "load"), <<>>)

\* what the handlers of the object graph return; object() is what the codec
\* cannot represent
HandlerResult(name) ==
    IF name = "unserializable" THEN "object()" ELSE name \o "()"

\* Serializer.before_dump raises TypeError for a value it has no dumper for
Serializable(result) == result /= "object()"

\* BaseExc.code of a class, built by __init_subclass__ from the codes of its bases
Code(cls) ==
    CASE cls = "RPCParseError" -> "error.rpc.parse"
      [] cls = "RPCInvalidRequest" -> "error.rpc.invalid_request"
      [] cls = "RPCUnsupportedVersion" -> "error.rpc.unsupported_version"
      [] cls = "RPCUndefinedMethod" -> "error.rpc.undefined_method"
      [] cls = "RPCInvalidParams" -> "error.rpc.invalid_params"
      [] cls = "RPCInternalError" -> "error.rpc.internal"
      [] cls = "RPCDeprecatedVersion" -> "warning.rpc.deprecated"
      [] cls = "DivisionByZero" -> "error.division_by_zero"
      [] cls = "NotFound" -> "error.not_found"
      [] cls = "Unauthorized" -> "error.unauthorized"
      [] OTHER -> ""

\* BaseExc.dump
DumpExc(e) == [code |-> Code(e.cls), data |-> e.data]

\* Response.dump, with the dump of the error and of the warnings
Dump(resp) ==
    [id |-> resp.id, meta |-> resp.meta, result |-> resp.result,
     error |-> IF resp.error = None THEN None ELSE DumpExc(resp.error),
     warnings |-> [n \in 1 .. Len(resp.warnings) |-> DumpExc(resp.warnings[n])]]

\* Request.__init__ on a payload that passed Request.schema
Request(payload) ==
    [id |-> payload.id, method |-> payload.method, version |-> payload.version,
     params |-> payload.params, middlewares |-> <<>>, injections |-> <<>>,
     handler |-> None]

\* a faulty scan that takes the first minor different from the requested one
FirstOther(majors, minor) ==
    IF majors = <<>> THEN ""
    ELSE IF majors[1][1] /= minor THEN majors[1][2] ELSE ""

\* for minor, api_version in majors.items(): if minor > version[1]: ... break
\* ("" when the loop ends without a break)
RECURSIVE FirstGreater(_, _)
FirstGreater(majors, minor) ==
    IF majors = <<>> THEN ""
    ELSE IF Head(majors)[1] > minor THEN Head(majors)[2]
    ELSE FirstGreater(Tail(majors), minor)

\* the version lookup of API.dispatch: the APIVersion selected, "" when unsupported
SelectVersion(versions, version) ==
    IF ~DictHas(versions, version[1]) THEN ""
    ELSE LET majors == DictGet(versions, version[1])
         IN IF DictHas(majors, version[2]) THEN DictGet(majors, version[2])
            ELSE FirstGreater(majors, version[2])

\* a validation that stops at the first offending key
SchemaErrorsFirst(schema, params) ==
    LET bad == {k \in (DOMAIN schema) \cup (DOMAIN params) :
                    \/ k \notin DOMAIN params
                    \/ k \notin DOMAIN schema
                    \/ params[k] /= schema[k]}
    IN [k \in (IF bad = {} THEN {} ELSE {CHOOSE k \in bad : TRUE}) |-> "Expected type."]

\* validx: the schema applied to params; the offending keys with their messages
SchemaErrors(schema, params) ==
    LET bad == {k \in (DOMAIN schema) \cup (DOMAIN params) :
                    \/ k \notin DOMAIN params
                    \/ k \notin DOMAIN schema
                    \/ params[k] /= schema[k]}
    IN [k \in bad |->
           IF k \notin DOMAIN params THEN "Required key is not provided."
           ELSE IF k \notin DOMAIN schema THEN "Forbidden key."
           ELSE "Expected type."]

\* a Dispatcher.dispatch that appends the middleware of the API as well
ExtendWithApi(middlewares, mws, self, md) ==
    LET F[n \in 0 .. Len(md.namespaces)] ==
            IF n = 0 THEN middlewares \o mws["App"] \o mws[self]
            ELSE F[n - 1] \o mws[md.namespaces[n]]
    IN F[Len(md.namespaces)]

\* request.middlewares after Dispatcher.dispatch extended it
ExtendMiddlewares(middlewares, mws, self, md) ==
    LET F[n \in 0 .. Len(md.namespaces)] ==
            IF n = 0 THEN middlewares \o mws[self]
            ELSE F[n - 1] \o mws[md.namespaces[n]]
    IN F[Len(md.namespaces)]

Reversed(s) == [n \in 1 .. Len(s) |-> s[Len(s) + 1 - n]]

\* a composition that walks request.middlewares front to back
ComposeForward(middlewares) ==
    LET F[n \in 0 .. Len(middlewares)] ==
            IF n = 0 THEN <<>> ELSE << middlewares[n] >> \o F[n - 1]
    IN F[Len(middlewares)]

\* for middleware in reversed(request.middlewares): handler = partial(middleware, handler)
\* the chain of calls, outermost first; the wrapper of the handler follows the last
Compose(middlewares) ==
    LET r == Reversed(middlewares)
        F[n \in 0 .. Len(r)] ==
            IF n = 0 THEN <<>> ELSE << r[n] >> \o F[n - 1]
    IN F[Len(r)]

\* a context that leaves the version out
ContextNoVersion(req) == [method |-> req.method, version |-> None]

\* method=request.method, version=request.meta.get("version")
Context(req) == [method |-> req.method, version |-> req.version]

\* a wrapper that re-raises the declared error as it came
WrapperExceptBare(e, req) ==
    IF e.cls = CancelledError THEN e
    ELSE IF IsInstance(e.cls, req.handler.info.raises) /\ IsInstance(e.cls, {"BaseError"})
         THEN e
    ELSE Exc("RPCInternalError", Context(req), "dispatch")

\* a wrapper that lets every declared exception through
WrapperExceptDeclared(e, req) ==
    IF e.cls = CancelledError THEN e
    ELSE IF IsInstance(e.cls, req.handler.info.raises)
         THEN [e EXCEPT !.data = DataUpdate(@, Context(req))]
    ELSE Exc("RPCInternalError", Context(req), "dispatch")

\* a wrapper without the `except asyncio.CancelledError: raise` clause
WrapperExceptAll(e, req) ==
    IF IsInstance(e.cls, req.handler.info.raises) /\ IsInstance(e.cls, {"BaseError"})
    THEN [e EXCEPT !.data = DataUpdate(@, Context(req))]
    ELSE Exc("RPCInternalError", Context(req), "dispatch")

\* the except clauses of Dispatcher.dispatch.wrapper: what it raises for e
WrapperExcept(e, req) ==
    IF e.cls = CancelledError THEN e
    ELSE IF IsInstance(e.cls, req.handler.info.raises) /\ IsInstance(e.cls, {"BaseError"})
         THEN [e EXCEPT !.data = DataUpdate(@, Context(req))]
    ELSE Exc("RPCInternalError", Context(req), "dispatch")

\* a handle_raw that reports every exception as it is
HandleRawExceptAny(e, req) ==
    IF e.cls = CancelledError THEN None
    ELSE RequestResponse(req, NoResult, e)

\* a handle_raw that puts the error beside the result of the handler found
HandleRawExceptKeepsResult(e, req) ==
    IF e.cls = CancelledError THEN None
    ELSE RequestResponse(req,
            IF req.handler = None THEN NoResult ELSE HandlerResult(req.handler.name),
            IF IsInstance(e.cls, {"BaseError"}) THEN e
            ELSE Exc("RPCInternalError", <<>>, "transport"))

\* a handle_raw that puts the served version into the meta of an error
HandleRawExceptWithVersion(e, req) ==
    IF e.cls = CancelledError THEN None
    ELSE Response(req.id, [EmptyMeta EXCEPT !.version = req.version], NoResult,
                  IF IsInstance(e.cls, {"BaseError"}) THEN e
                  ELSE Exc("RPCInternalError", <<>>, "transport"),
                  <<>>)

\* the except clauses of HTTPRoutes.handle_raw around api.dispatch:
\* the Response returned for e, None when e is raised again
HandleRawExcept(e, req) ==
    IF IsInstance(e.cls, {"BaseError"}) THEN RequestResponse(req, NoResult, e)
    ELSE IF e.cls = CancelledError THEN None
    ELSE RequestResponse(req, NoResult, Exc("RPCInternalError", <<>>, "transport"))

\* a dispatcher that never shields
AlwaysCancelled(shield, htask) ==
    IF htask = "running" THEN "cancelled" ELSE htask

\* a dispatcher that always shields
NeverCancelled(shield, htask) == htask

\* the handler after the awaiting task was cancelled: asyncio.shield keeps it
\* running, a bare coroutine gets the CancelledError
HandlerAfterCancel(shield, htask) ==
    IF shield THEN htask
    ELSE IF htask = "running" THEN "cancelled" ELSE htask

\* the tag the middleware of the test-suite leave in response.meta
Tag(m) == m.self \o "." \o m.name

(***************************************************************************)
(* The builtin handlers list_methods and list_versions.                     *)
(***************************************************************************)
\* the raises= argument of @handler as it is written: one class (div,
\* get_nothing), a tuple of two (mod) or the default ()
RaisesArg(h) ==
    IF h.name = "div" THEN [tuple |-> FALSE, types |-> <<"DivisionByZero">>]
    ELSE IF h.name = "get_nothing" THEN [tuple |-> FALSE, types |-> <<"ArithmeticError">>]
    ELSE IF h.name = "mod" THEN [tuple |-> TRUE, types |-> <<"DivisionByZero", "NotFound">>]
    ELSE [tuple |-> TRUE, types |-> <<>>]

\* hasattr(cls, "code"): the subclasses of BaseExc below its direct children
HasCode(cls) == Code(cls) /= ""

\* [e.code for e in info["raises"]] if isinstance(info["raises"], tuple)
\* else [info["raises"].code]
RaisesCodes(arg) ==
    IF arg.tuple THEN [n \in 1 .. Len(arg.types) |-> Code(arg.types[n])]
    ELSE << Code(arg.types[1]) >>

\* @handler(shield=False, builtin=True)
Builtins == {"list_methods", "list_exceptions", "list_versions"}

\* the entry of list_methods for a MethodDef (without the description)
MethodInfo(md) ==
    [name |-> md.name,
     raises |-> RaisesCodes(RaisesArg(md.handler)),
     schema |-> md.handler.info.schema,
     shield |-> md.handler.info.shield,
     builtin |-> md.handler.name \in Builtins]

\* the names of the object graph in the order of Python's str comparison
NameOrder ==
    << "foo.div", "foo.mod", "list_exceptions", "list_methods", "list_versions" >>
        \o [k \in 1 .. MaxDepth - 2 |-> NsName(k + 2) \o ".get_nothing"]
        \o << "nested.get_nothing", "scale", "sum", "unserializable" >>

NameRank(name) == CHOOSE n \in 1 .. Len(NameOrder) : NameOrder[n] = name

\* result.sort(key=lambda e: e["name"]): stable
RECURSIVE SortByName(_)
SortByName(entries) ==
    IF entries = <<>> THEN <<>>
    ELSE LET e == entries[Len(entries)]
             sorted == SortByName(SubSeq(entries, 1, Len(entries) - 1))
             before == {n \in 1 .. Len(sorted) :
                            NameRank(sorted[n].name) <= NameRank(e.name)}
         IN SubSeq(sorted, 1, Cardinality(before)) \o << e >>
                \o SubSeq(sorted, Cardinality(before) + 1, Len(sorted))

\* Dispatcher.list_methods over self._methods: an AttributeError when a
\* declared class has no code, the sorted entries otherwise
ListMethods(methods) ==
    LET mds == DictValues(methods)
    IN IF \E n \in 1 .. Len(mds) :
            \E k \in 1 .. Len(RaisesArg(mds[n].handler).types) :
                ~HasCode(RaisesArg(mds[n].handler).types[k])
       THEN Raises("AttributeError")
       ELSE Returns(SortByName([n \in 1 .. Len(mds) |-> MethodInfo(mds[n])]))

\* a list_versions that walks depends_on instead of the table of versions
ListVersionsAsRegistered(versions, deps) ==
    [n \in 1 .. Len(deps) |->
        [version |-> deps[n].version, deprecated |-> deps[n].deprecated]]

\* API.list_versions over self._versions: majors, then the minors of each
ListVersions(versions, deps) ==
    LET minors(n) == DictValues(DictValues(versions)[n])
        F[n \in 0 .. Len(versions)] ==
            IF n = 0 THEN <<>>
            ELSE F[n - 1] \o
                 [k \in 1 .. Len(minors(n)) |->
                    [version |-> deps[VIndex(deps, minors(n)[k])].version,
                     deprecated |-> deps[VIndex(deps, minors(n)[k])].deprecated]]
    IN F[Len(versions)]

(***************************************************************************)
(* The state machine: one item per handle_raw call of the exchange.         *)
(***************************************************************************)
RECURSIVE PathPrefix(_)
PathPrefix(k) == IF k = 0 THEN "" ELSE PathPrefix(k - 1) \o NsName(k) \o "."

\* the dot-separated path of the handler get_nothing of the namespace of level k
FullPath(k) == PathPrefix(k) \o "get_nothing"

ReqVersions == {None} \cup (ReqMajors \X ReqMinors)

ReqMethods ==
    {"foo.div", "sum", "list_methods", "foo.undefined"}
        \cup {FullPath(k) : k \in 2 .. MaxDepth}
        \cup {NsName(k) \o ".get_nothing" : k \in 2 .. MaxDepth}

ReqParams == {<<>>, [x |-> "int", y |-> "int"], [x |-> "str", y |-> "int"]}

EnvelopeKeys == {"id", "method", "params", "meta"}

\* a payload as Client.make_request builds it
Payload(id, m, v, p) ==
    [kind |-> "dict", keys |-> EnvelopeKeys, id |-> id, method |-> m,
     version |-> v, params |-> p]

Payloads(id) ==
    {Payload(id, m, v, p) : m \in ReqMethods, v \in ReqVersions, p \in ReqParams}
        \cup {Payload(id, "unserializable", None, <<>>),
              Payload(id, "list_versions", None, <<>>),
              Payload(id, "scale", None, [x |-> "int", injection |-> "int"])}

\* payloads Request.schema refuses: no id, an id that is a string, no method
\* (the id a number or a boolean), and a payload that is a number
InvalidPayloads(id) ==
    { [Payload(id, "sum", None, <<>>) EXCEPT !.keys = @ \ {"id"}],
      Payload("'x'", "sum", None, <<>>),
      [Payload(id, "sum", None, <<>>) EXCEPT !.keys = @ \ {"method"}],
      [Payload("true", "sum", None, <<>>) EXCEPT !.keys = @ \ {"method"}],
      [Payload(id, "sum", None, <<>>) EXCEPT !.kind = "int", !.keys = {}] }

\* the items a batch is made of
BatchPayloads(id) ==
    { Payload(id, "foo.undefined", None, <<>>),
      Payload(id, "sum", None, [x |-> "int", y |-> "int"]),
      Payload(id, "unserializable", None, <<>>),
      [Payload(id, "sum", None, <<>>) EXCEPT !.keys = @ \ {"id"}] }

\* what a handler may raise
HandlerRaises == {"DivisionByZero", "NotFound", "ZeroDivisionError"}

\* what a middleware may raise before it calls its inner handler
MiddlewareRaises == {"Unauthorized", "KeyError"}

\* what a handler of the object graph can end with: list_methods returns or
\* raises as its loop does, list_versions returns; the handlers of the
\* application return or raise as they please
CanReturn(h) ==
    h.name = "list_methods" => ListMethods(_methods[h.self]).raised = ""

CanRaise(h) ==
    IF h.name = "list_methods"
    THEN {ListMethods(_methods[h.self]).raised} \ {""}
    ELSE IF h.name = "list_versions" THEN {}
    ELSE HandlerRaises

NewItem(payload) ==
    [raw |-> payload, pc |-> "load", req |-> None, ctx |-> "", chain |-> <<>>,
     depth |-> 0, entered |-> <<>>, exited |-> <<>>, htask |-> "none",
     hargs |-> <<>>, hout |-> NoExc, exc |-> NoExc, resp |-> None,
     cancelled |-> FALSE, hcancel |-> "", logged |-> 0, finished |-> 0,
     issued |-> phase]

\* nothing of myack/exc.py was called yet
NoCall == [op |-> "", args |-> None, raised |-> "", value |-> None]

\* no method of the Timer was called yet
NoTimerCall == [op |-> "", td |-> 0, before |-> 0, after |-> 0, n |-> 0]

\* every namespace as its class has it: enabled
AllEnabled == [c \in Namespaces |-> TRUE]

\* at most one class of namespace says enabled = False
EnabledChoices ==
    {AllEnabled} \cup {[c \in Namespaces |-> c /= d] : d \in Namespaces}

\* the state before on_setup, for the APIVersions registered and the
\* namespaces enabled
StartWith(deps, en) ==
    /\ depends_on = deps
    /\ phase = "new"
    /\ attributes = {}
    /\ _middlewares = <<>>
    /\ _methods = <<>>
    /\ _versions = <<>>
    /\ body = None
    /\ items = <<>>
    /\ task = "none"
    /\ json_response = None
    /\ json_request = ""
    /\ enabled = en
    /\ registry = Imported(Len(ImportedClasses)).registry
    /\ classes = Imported(Len(ImportedClasses)).classes
    /\ exc_out = NoCall
    /\ time = 0
    /\ _current = None
    /\ _updated = None
    /\ timer_out = NoTimerCall

Start(deps) == StartWith(deps, AllEnabled)

Init == \E deps \in DependsOnChoices : Start(deps)

\* the attributes on_setup sets on the components
TableNames == {"_middlewares", "_methods", "_versions"}

\* Conductor.setup: on_setup of every component, before any exchange
Setup ==
    /\ phase = "new"
    /\ task = "none"
    /\ phase' = "ready"
    /\ attributes' = TableNames
    /\ _middlewares' = [c \in Components(depends_on) |-> CollectMiddlewares(c, depends_on)]
    /\ _methods' = [c \in Dispatchers(depends_on) |-> BuildMethods(c, depends_on)]
    /\ _versions' = BuildVersions(depends_on)
    /\ UNCHANGED <<depends_on, enabled, body, items, task, json_response, json_request,
                   taxonomy, exc_out, chrono>>

\* bytes that serializer.loadb decodes to the body
Json == "json"

\* bytes that serializer.loadb does not decode: no JSON; a date without its
\* fields; a date of the year 0; a datetime whose UTC value is before year 1
UndecodableBodies ==
    { "invalid_json",
      "{\"_type\": \"date\"}",
      "{\"_type\": \"date\", \"year\": 0, \"month\": 1, \"day\": 1}",
      "{\"_type\": \"datetime\", \"year\": 1, \"month\": 1, \"day\": 1, \"utcoffset\": 10}" }

\* Serializer.loadb on such bytes: the exception rapidjson.loads raises (a
\* JSONDecodeError is a ValueError) or after_load lets through from the
\* loader: load_date(**obj) without its arguments, date(0, 1, 1), and
\* `dt - timedelta(minutes=utcoffset)` out of the range of datetime
Loadb(b) ==
    CASE b = "invalid_json" ->
            [raised |-> "ValueError", reason |-> "Parse error at offset 0: Invalid value."]
      [] b = "{\"_type\": \"date\"}" ->
            [raised |-> "TypeError",
             reason |-> "load_date() missing 3 required positional arguments"]
      [] b = "{\"_type\": \"date\", \"year\": 0, \"month\": 1, \"day\": 1}" ->
            [raised |-> "ValueError", reason |-> "year 0 is out of range"]
      [] OTHER ->
            [raised |-> "OverflowError", reason |-> "date value out of range"]

\* handle_json, except (ValueError, TypeError) as e:
\* Response(error=RPCParseError(reason=str(e)))
ParseFailure(e) ==
    Response(NoId, EmptyMeta, NoResult,
             Exc("RPCParseError", [reason |-> e.reason], "transport"), <<>>)

\* handle_json: a body that decodes to something that is no list arrives,
\* and handle_raw is awaited on it
ReceiveFrom(payloads) ==
    /\ phase = "ready"
    /\ task = "none"
    /\ \E p \in payloads :
        /\ body' = [list |-> FALSE, value |-> p]
        /\ items' = << NewItem(p) >>
    /\ json_request' = Json
    /\ task' = "running"
    /\ UNCHANGED <<tables, json_response, taxonomy, exc_out, chrono>>

Receive == ReceiveFrom(Payloads("1") \cup InvalidPayloads("1"))

\* an item as a batch carries it, sent alone
ReceiveAlone == ReceiveFrom(BatchPayloads("1"))

\* the bodies that decode to a list of n payloads, the n-th with the id n
RECURSIVE Batches(_)
Batches(n) ==
    IF n = 0 THEN {<<>>}
    ELSE {Append(b, p) : b \in Batches(n - 1), p \in BatchPayloads(ToString(n))}

\* handle_json: a body that decodes to a list arrives, and asyncio.gather makes
\* a task of handle_raw for every element
ReceiveBatch ==
    /\ phase = "ready"
    /\ task = "none"
    /\ \E n \in 0 .. MaxBatch :
        \E b \in Batches(n) :
            /\ body' = [list |-> TRUE, value |-> b]
            /\ items' = [k \in 1 .. n |-> NewItem(b[k])]
    /\ json_request' = Json
    /\ task' = "running"
    /\ UNCHANGED <<tables, json_response, taxonomy, exc_out, chrono>>

\* handle_json: the body does not decode.  A ValueError or a TypeError of
\* loadb is answered with the parse error; any other exception leaves
\* handle_json, and post makes an HTTP 500 of it
ReceiveUndecodable ==
    /\ phase = "ready"
    /\ task = "none"
    /\ \E b \in UndecodableBodies :
        /\ json_request' = b
        /\ IF Loadb(b).raised \in {"ValueError", "TypeError"}
           THEN /\ json_response' = Dump(ParseFailure(Loadb(b)))
                /\ task' = "returned"
           ELSE /\ json_response' = json_response
                /\ task' = "raised"
    /\ UNCHANGED <<tables, body, items, taxonomy, exc_out, chrono>>

\* a task that is not in the middle of a step: not started, suspended in
\* `await aw`, ended, or with a CancelledError to be thrown into it
Suspended(it) ==
    \/ it.pc \in {"load", "await", "done", "cancelled"}
    \/ it.pc = "raised" /\ it.cancelled

\* the event loop runs one task at a time, up to its next suspension
Turn(i) == \A j \in DOMAIN items : j /= i => Suspended(items[j])

At(i, pc) ==
    /\ i \in DOMAIN items
    /\ items[i].pc = pc
    /\ Turn(i)

\* a gather that cancels the children still pending when one ends with an error
GatherCancelsSiblings(its, i) ==
    IF its[i].pc = "done" /\ its[i].resp.error /= None
    THEN [j \in DOMAIN its |->
            IF j /= i /\ its[j].pc \notin {"done", "cancelled"}
            THEN [its[j] EXCEPT !.pc = "cancelled"]
            ELSE its[j]]
    ELSE its

\* asyncio.gather(*children) after the step of child i: the other children
\* are left alone, whatever the outcome of i
GatherChildren(its, i) == its

\* a Request whose middlewares is the list of the API itself: what dispatch
\* extends is then API._middlewares
SharedList(mws, item) ==
    IF item.req = None THEN mws ELSE [mws EXCEPT !["App"] = item.req.middlewares]

\* the _middlewares of the components after a step of dispatch:
\* request.middlewares is a list of the Request's own (Request.__init__), so
\* request.middlewares.extend(self._middlewares) leaves them as they are
OwnList(mws, item) == mws

\* the task of child i is done: finished is its place among the children in
\* the order in which they complete
Completed(its, i) ==
    IF its[i].pc = "done" /\ its[i].finished = 0
    THEN [its EXCEPT ![i].finished = Cardinality({j \in DOMAIN its : its[j].pc = "done"})]
    ELSE its

Put(i, item) ==
    /\ items' = GatherChildren(Completed([items EXCEPT ![i] = item], i), i)
    /\ _middlewares' = OwnList(_middlewares, item)
    /\ UNCHANGED <<depends_on, phase, attributes, _methods, _versions, enabled, body, task,
                   json_response, json_request, taxonomy, exc_out, chrono>>

\* handle_raw: Request.load, and the Response of a payload it refused
Load(i) ==
    /\ At(i, "load")
    /\ IF DOMAIN EnvelopeErrors(items[i].raw) = {}
       THEN Put(i, [items[i] EXCEPT !.req = Request(items[i].raw), !.pc = "api"])
       ELSE Put(i, [items[i] EXCEPT !.resp = LoadFailed(items[i].raw), !.pc = "done"])

\* API.dispatch
ApiDispatch(i) ==
    /\ At(i, "api")
    /\ LET it == items[i]
           version == it.req.version
           context == SelectVersion(_versions, version)
       IN IF version = None
          THEN Put(i, [it EXCEPT !.ctx = "App", !.pc = "lookup"])
          ELSE IF "_versions" \notin attributes
          THEN Put(i, [it EXCEPT
                    !.exc = Exc("AttributeError", <<>>, "api"),
                    !.pc = "raised"])
          ELSE IF context = ""
          THEN Put(i, [it EXCEPT
                    !.exc = Exc("RPCUnsupportedVersion", [version |-> version], "api"),
                    !.pc = "raised"])
          ELSE Put(i, [it EXCEPT
                    !.req.version = depends_on[VIndex(depends_on, context)].version,
                    !.req.middlewares = @ \o _middlewares["App"],
                    !.ctx = context,
                    !.pc = "lookup"])

\* Dispatcher.dispatch: the lookup of the method, the handler and the middleware
Lookup(i) ==
    /\ At(i, "lookup")
    /\ LET it == items[i]
           self == it.ctx
       IN IF "_methods" \notin attributes
          THEN Put(i, [it EXCEPT
                    !.exc = Exc("AttributeError", <<>>, "dispatch"),
                    !.pc = "raised"])
          ELSE IF ~DictHas(_methods[self], it.req.method)
          THEN Put(i, [it EXCEPT
                    !.exc = Exc("RPCUndefinedMethod", Context(it.req), "dispatch"),
                    !.pc = "raised"])
          ELSE LET md == DictGet(_methods[self], it.req.method)
               IN Put(i, [it EXCEPT
                    !.req.handler = md.handler,
                    !.req.middlewares = ExtendMiddlewares(@, _middlewares, self, md),
                    !.pc = "validate"])

\* a dispatch that applies the schema in the wrapper, after the middleware
\* of the chain have started
CheckParamsInWrapper(it) ==
    LET reason == SchemaErrors(it.req.handler.info.schema, it.req.params)
    IN IF DOMAIN reason /= {}
       THEN [it EXCEPT
                !.chain = Compose(it.req.middlewares),
                !.entered = Compose(it.req.middlewares),
                !.depth = Len(it.req.middlewares),
                !.exc = Exc("RPCInvalidParams",
                            [reason |-> reason, method |-> it.req.method,
                             version |-> it.req.version], "dispatch"),
                !.pc = "raised"]
       ELSE [it EXCEPT !.chain = Compose(it.req.middlewares), !.pc = "chain"]

\* Dispatcher.dispatch after the lookup: the schema is applied to the params
\* and refuses them, or the chain is built
CheckParams(it) ==
    LET reason == SchemaErrors(it.req.handler.info.schema, it.req.params)
    IN IF DOMAIN reason /= {}
       THEN [it EXCEPT
                !.exc = Exc("RPCInvalidParams",
                            [reason |-> reason, method |-> it.req.method,
                             version |-> it.req.version], "dispatch"),
                !.pc = "raised"]
       ELSE [it EXCEPT !.chain = Compose(it.req.middlewares), !.pc = "chain"]

\* Dispatcher.dispatch: the schema applied to the params, then the chain is built
Validate(i) ==
    /\ At(i, "validate")
    /\ Put(i, CheckParams(items[i]))

\* a middleware starts: its part before `await handler(request)`
MiddlewareEnter(i) ==
    /\ At(i, "chain")
    /\ items[i].depth < Len(items[i].chain)
    /\ LET it == items[i]
           m == it.chain[it.depth + 1]
       IN Put(i, [it EXCEPT
                !.depth = @ + 1,
                !.entered = Append(@, m),
                !.req.injections =
                    IF m.name = "injector" /\ "injection" \in it.req.handler.info.sig
                    THEN DataUpdate(@, [injection |-> "10"])
                    ELSE @])

\* a middleware raises instead of calling its inner handler
MiddlewareRaise(i) ==
    /\ At(i, "chain")
    /\ items[i].depth < Len(items[i].chain)
    /\ \E cls \in MiddlewareRaises :
        LET it == items[i]
            m == it.chain[it.depth + 1]
        IN Put(i, [it EXCEPT
                !.entered = Append(@, m),
                !.exc = Exc(cls, <<>>, "middleware"),
                !.pc = "raised"])

\* a wrapper that lets the params of the client win
CallParamsClientFirst(params, injections) == DataUpdate(injections, params)

\* dict(request.params, **request.injections)
CallParams(params, injections) == DataUpdate(params, injections)

\* wrapper: the handler is called with the params and the injections and awaited
CallHandler(i) ==
    /\ At(i, "chain")
    /\ items[i].depth = Len(items[i].chain)
    /\ Put(i, [items[i] EXCEPT
            !.hargs = CallParams(items[i].req.params, items[i].req.injections),
            !.htask = "running",
            !.pc = "await"])

\* wrapper after `await aw`: the Response of a result, the exception it raises
Resumed(it, htask, hout) ==
    IF htask = "returned"
    THEN [it EXCEPT !.htask = htask, !.hout = hout,
                    !.resp = RequestResponse(it.req, HandlerResult(it.req.handler.name), None),
                    !.pc = "up"]
    ELSE [it EXCEPT !.htask = htask, !.hout = hout,
                    !.exc = WrapperExcept(hout, it.req),
                    !.logged = IF WrapperExcept(hout, it.req).by = "dispatch"
                               THEN @ + 1 ELSE @,
                    !.pc = "raised"]

\* the handler ends: it returns or raises.  A handler awaited bare ends inside
\* the wrapper; a shielded one ends in its own task
Finished(it, htask, hout) ==
    IF it.pc = "await" /\ ~it.req.handler.info.shield
    THEN Resumed(it, htask, hout)
    ELSE [it EXCEPT !.htask = htask, !.hout = hout]

HandlerReturn(i) ==
    /\ phase = "ready" /\ i \in DOMAIN items
    /\ Turn(i)
    /\ items[i].htask = "running"
    /\ CanReturn(items[i].req.handler)
    /\ Put(i, Finished(items[i], "returned", NoExc))

HandlerRaise(i) ==
    /\ phase = "ready" /\ i \in DOMAIN items
    /\ Turn(i)
    /\ items[i].htask = "running"
    /\ \E cls \in CanRaise(items[i].req.handler) :
        Put(i, Finished(items[i], "raised", Exc(cls, [detail |-> "d"], "handler")))

\* the wrapper wakes up on the finished shield future
WrapperResume(i) ==
    /\ At(i, "await")
    /\ items[i].htask \in {"returned", "raised"}
    /\ Put(i, Resumed(items[i], items[i].htask, items[i].hout))

\* a set_version_info that leaves response.meta alone
AfterPartWarningOnly(m, resp, deps) ==
    IF m.name \in {"middleware_1", "middleware_2"}
    THEN [resp EXCEPT !.meta.middlewares = Append(@, Tag(m))]
    ELSE IF m.name = "set_version_info"
    THEN [resp EXCEPT
            !.warnings = IF deps[VIndex(deps, m.self)].deprecated
                         THEN Append(@, Exc("RPCDeprecatedVersion", <<>>, "version"))
                         ELSE @]
    ELSE resp

\* a set_version_info that warns for every version
AfterPartAlwaysWarns(m, resp, deps) ==
    IF m.name \in {"middleware_1", "middleware_2"}
    THEN [resp EXCEPT !.meta.middlewares = Append(@, Tag(m))]
    ELSE IF m.name = "set_version_info"
    THEN [resp EXCEPT
            !.meta.version = IF @ = None THEN deps[VIndex(deps, m.self)].version ELSE @,
            !.warnings = Append(@, Exc("RPCDeprecatedVersion", <<>>, "version"))]
    ELSE resp

\* what a middleware of the object graph does after its inner handler returned
AfterPart(m, resp, deps) ==
    IF m.name \in {"middleware_1", "middleware_2"}
    THEN [resp EXCEPT !.meta.middlewares = Append(@, Tag(m))]
    ELSE IF m.name = "set_version_info"
    THEN [resp EXCEPT
            !.meta.version = IF @ = None THEN deps[VIndex(deps, m.self)].version ELSE @,
            !.warnings = IF deps[VIndex(deps, m.self)].deprecated
                         THEN Append(@, Exc("RPCDeprecatedVersion", <<>>, "version"))
                         ELSE @]
    ELSE resp

\* a middleware ends: its part after `await handler(request)`
MiddlewareExit(i) ==
    /\ At(i, "up")
    /\ items[i].depth > 0
    /\ LET it == items[i]
           m == it.chain[it.depth]
       IN Put(i, [it EXCEPT
                !.depth = @ - 1,
                !.exited = Append(@, m),
                !.resp = AfterPart(m, @, depends_on)])

\* dispatch returns the Response, and handle_raw returns it
Return(i) ==
    /\ At(i, "up")
    /\ items[i].depth = 0
    /\ Put(i, [items[i] EXCEPT !.pc = "done"])

\* handle_raw: an exception left api.dispatch
Raised(i) ==
    /\ At(i, "raised")
    /\ LET it == items[i]
           response == HandleRawExcept(it.exc, it.req)
       IN IF response = None
          THEN Put(i, [it EXCEPT !.pc = "cancelled"])
          ELSE Put(i, [it EXCEPT
                    !.resp = response,
                    !.logged = IF response.error.by = "transport" THEN @ + 1 ELSE @,
                    !.pc = "done"])

\* the task of the exchange is cancelled (the peer went away) while every
\* unfinished item is suspended in its handler
Cancel ==
    /\ phase = "ready"
    /\ task = "running"
    /\ \E i \in DOMAIN items : items[i].pc = "await"
    /\ \A i \in DOMAIN items : items[i].pc \in {"await", "done", "cancelled"}
    /\ \A i \in DOMAIN items :
        items[i].pc = "await" /\ ~items[i].req.handler.info.shield
            => items[i].htask = "running"
    /\ items' = [i \in DOMAIN items |->
            IF items[i].pc /= "await" THEN items[i]
            ELSE [items[i] EXCEPT
                    !.cancelled = TRUE,
                    !.hcancel = items[i].htask,
                    !.htask = HandlerAfterCancel(items[i].req.handler.info.shield, @),
                    !.exc = WrapperExcept(Exc(CancelledError, <<>>, "task"), items[i].req),
                    !.pc = "raised"]]
    /\ task' = "cancelling"
    /\ UNCHANGED <<tables, body, json_response, json_request, taxonomy, exc_out, chrono>>

\* a faulty wait that is over with the first child that is done
FirstDone(its) == \E i \in DOMAIN its : its[i].pc = "done"

\* `await asyncio.gather(...)`, or `await self.handle_raw(...)`, returns:
\* every handle_raw has returned its Response
GatherDone(its) == \A i \in DOMAIN its : its[i].pc = "done"

\* a handle_json that answers an encoding failure item by item
DumpbPerItem(list, responses) ==
    LET one(r) == IF Serializable(r.result) THEN Dump(r)
                  ELSE Dump(Response(r.id, EmptyMeta, NoResult,
                                     Exc("RPCInternalError", <<>>, "transport"), <<>>))
    IN IF list THEN [n \in 1 .. Len(responses) |-> one(responses[n])]
       ELSE one(responses[1])

\* handle_json, "Serialize response": what serializer.dumpb is given in the
\* end, the responses or, after a TypeError, Response(error=RPCInternalError())
Dumpb(list, responses) ==
    IF \A n \in 1 .. Len(responses) : Serializable(responses[n].result)
    THEN IF list THEN [n \in 1 .. Len(responses) |-> Dump(responses[n])]
         ELSE Dump(responses[1])
    ELSE Dump(Response(NoId, EmptyMeta, NoResult,
                       Exc("RPCInternalError", <<>>, "transport"), <<>>))

\* a handle_json that collects the responses as the children complete
ResponsesAsCompleted(its) ==
    LET done == {i \in DOMAIN its : its[i].pc = "done"}
        nth(k) == CHOOSE i \in done : its[i].finished = k
    IN [k \in 1 .. Cardinality(done) |-> its[nth(k)].resp]

\* the responses handle_json has so far, in the order of the items
Responses(its) ==
    LET F[n \in 0 .. Len(its)] ==
            IF n = 0 THEN <<>>
            ELSE IF its[n].pc = "done" THEN Append(F[n - 1], its[n].resp)
            ELSE F[n - 1]
    IN F[Len(its)]

\* handle_json returns the encoded output
Respond ==
    /\ task = "running"
    /\ GatherDone(items)
    /\ json_response' = Dumpb(body.list, Responses(items))
    /\ task' = "returned"
    /\ UNCHANGED <<tables, body, items, json_request, taxonomy, exc_out, chrono>>

\* handle_json ends with the CancelledError of a handle_raw
Abort ==
    /\ task \in {"running", "cancelling"}
    /\ \E i \in DOMAIN items : items[i].pc = "cancelled"
    /\ task' = "cancelled"
    /\ UNCHANGED <<tables, body, items, json_response, json_request, taxonomy, exc_out, chrono>>

Next ==
    \/ Setup
    \/ Receive
    \/ ReceiveUndecodable
    \/ Cancel
    \/ Respond
    \/ Abort
    \/ \E i \in DOMAIN items : Load(i)
    \/ \E i \in DOMAIN items : ApiDispatch(i)
    \/ \E i \in DOMAIN items : Lookup(i)
    \/ \E i \in DOMAIN items : Validate(i)
    \/ \E i \in DOMAIN items : MiddlewareEnter(i)
    \/ \E i \in DOMAIN items : MiddlewareRaise(i)
    \/ \E i \in DOMAIN items : CallHandler(i)
    \/ \E i \in DOMAIN items : HandlerReturn(i)
    \/ \E i \in DOMAIN items : HandlerRaise(i)
    \/ \E i \in DOMAIN items : WrapperResume(i)
    \/ \E i \in DOMAIN items : MiddlewareExit(i)
    \/ \E i \in DOMAIN items : Return(i)
    \/ \E i \in DOMAIN items : Raised(i)

Spec == Init /\ [][Next]_vars

\* the event loop keeps running a handler that is ready to go on, so a handler
\* that terminates on its own does end
FairSpec ==
    Spec /\ WF_vars(\E i \in DOMAIN items : HandlerReturn(i) \/ HandlerRaise(i))

\* the API of the exchanges that carry batches: (1, 0), deprecated, and (2, 1)
BatchDependsOn ==
    << [version |-> <<1, 0>>, deprecated |-> TRUE],
       [version |-> <<2, 1>>, deprecated |-> FALSE] >>

BatchInit == Start(BatchDependsOn)

BatchNext ==
    \/ Setup
    \/ ReceiveAlone
    \/ ReceiveBatch
    \/ Cancel
    \/ Respond
    \/ Abort
    \/ \E i \in DOMAIN items : Load(i)
    \/ \E i \in DOMAIN items : ApiDispatch(i)
    \/ \E i \in DOMAIN items : Lookup(i)
    \/ \E i \in DOMAIN items : Validate(i)
    \/ \E i \in DOMAIN items : MiddlewareEnter(i)
    \/ \E i \in DOMAIN items : MiddlewareRaise(i)
    \/ \E i \in DOMAIN items : CallHandler(i)
    \/ \E i \in DOMAIN items : HandlerReturn(i)
    \/ \E i \in DOMAIN items : HandlerRaise(i)
    \/ \E i \in DOMAIN items : WrapperResume(i)
    \/ \E i \in DOMAIN items : MiddlewareExit(i)
    \/ \E i \in DOMAIN items : Return(i)
    \/ \E i \in DOMAIN items : Raised(i)

BatchSpec == BatchInit /\ [][BatchNext]_vars

\* the API of the batches with one of the choices of enabled namespaces
NsInit == \E en \in EnabledChoices : StartWith(BatchDependsOn, en)

NsSpec == NsInit /\ [][Next]_vars

(***************************************************************************)
(* The life of the components: setup, shutdown, and an exchange that        *)
(* arrives before the one or after the other.                               *)
(***************************************************************************)
\* an on_shutdown that leaves the attributes where they are
Kept(names) == names

\* del self._versions, del self._methods, del self._middlewares
Deleted(names) == {}

\* Conductor.shutdown: on_shutdown of every component, no exchange in flight
Shutdown ==
    /\ phase = "ready"
    /\ task \in {"none", "returned", "cancelled"}
    /\ phase' = "down"
    /\ attributes' = Deleted(attributes)
    /\ _middlewares' = IF "_middlewares" \in attributes' THEN _middlewares ELSE <<>>
    /\ _methods' = IF "_methods" \in attributes' THEN _methods ELSE <<>>
    /\ _versions' = IF "_versions" \in attributes' THEN _versions ELSE <<>>
    /\ UNCHANGED <<depends_on, enabled, body, items, task, json_response, json_request,
                   taxonomy, exc_out, chrono>>

\* the requests of an exchange outside the life of the API
UnreadyPayloads ==
    {Payload("1", "sum", None, [x |-> "int", y |-> "int"]),
     Payload("1", "foo.div", <<1, 0>>, [x |-> "int", y |-> "int"]),
     Payload("1", "foo.undefined", None, <<>>)}

\* handle_json is called before on_setup or after on_shutdown
ReceiveUnready ==
    /\ phase /= "ready"
    /\ task = "none"
    /\ \E p \in UnreadyPayloads :
        /\ body' = [list |-> FALSE, value |-> p]
        /\ items' = << NewItem(p) >>
    /\ json_request' = Json
    /\ task' = "running"
    /\ UNCHANGED <<tables, json_response, taxonomy, exc_out, chrono>>

LifeNext ==
    \/ Setup
    \/ Shutdown
    \/ ReceiveAlone
    \/ ReceiveUnready
    \/ Cancel
    \/ Respond
    \/ Abort
    \/ \E i \in DOMAIN items : Load(i)
    \/ \E i \in DOMAIN items : ApiDispatch(i)
    \/ \E i \in DOMAIN items : Lookup(i)
    \/ \E i \in DOMAIN items : Validate(i)
    \/ \E i \in DOMAIN items : MiddlewareEnter(i)
    \/ \E i \in DOMAIN items : MiddlewareRaise(i)
    \/ \E i \in DOMAIN items : CallHandler(i)
    \/ \E i \in DOMAIN items : HandlerReturn(i)
    \/ \E i \in DOMAIN items : HandlerRaise(i)
    \/ \E i \in DOMAIN items : WrapperResume(i)
    \/ \E i \in DOMAIN items : MiddlewareExit(i)
    \/ \E i \in DOMAIN items : Return(i)
    \/ \E i \in DOMAIN items : Raised(i)

LifeSpec == BatchInit /\ [][LifeNext]_vars

(***************************************************************************)
(* The taxonomy at work: class statements after the import, dispatch of     *)
(* wire triples, and the way of an instance over the wire and back.         *)
(***************************************************************************)
\* the classes defined after the import so far
Defined == DOMAIN classes \ {ImportedClasses[n].name : n \in 1 .. Len(ImportedClasses)}

\* the name of the k-th class statement after the import
NewName(k) ==
    IF k = 1 THEN "TestError" ELSE IF k = 2 THEN "NestedTestError"
    ELSE "Error" \o ToString(k)

\* the short codes the class statements pass as code=
Shorts == {"test", "parse"}

\* the message of the class body, none when it has none
ClassMessages == {NoMessage, "Test error"}

\* the bases the class statements name
DefBases == {"BaseExc", "BaseError", "RPCError"} \cup Defined

\* the wire: codes (registered with and without a default message, and
\* unknown), messages and data mappings
WireCodes ==
    {"invalid", "error", "error.rpc.parse"} \cup {classes[n].code : n \in Defined}

WireMessages == {NoMessage, "Custom error message"}

WireData ==
    {[k \in S |-> "bar"] : S \in {{}, {"foo"}, {"code"}, {"message"}, {"cls"}, {"self"}}}

\* a class statement `class name(base, code=short)` is executed
Define ==
    /\ Cardinality(Defined) < MaxDefined
    /\ \E base \in DefBases, short \in Shorts, message \in ClassMessages :
        LET def == ClassDef(NewName(Cardinality(Defined) + 1), base, short, message)
            r == InitSubclass(registry, classes, def)
        IN /\ registry' = r.registry
           /\ classes' = r.classes
           /\ exc_out' = [op |-> "class", args |-> def, raised |-> r.raised,
                          value |-> None]
    /\ UNCHANGED <<rpc, chrono>>

\* BaseExc.dispatch(code, message, **data) on a triple of the wire
DispatchExc ==
    /\ \E code \in WireCodes, message \in WireMessages, data \in WireData :
        LET out == Dispatch(registry, classes, code, message, data)
        IN exc_out' = [op |-> "dispatch",
                       args |-> [code |-> code, message |-> message, data |-> data],
                       raised |-> out.raised, value |-> out.value]
    /\ UNCHANGED <<rpc, taxonomy, chrono>>

\* an instance v is made, dumped, and BaseExc.dispatch(d.code, d.message,
\* **d.data) is called on its dump d
RoundTrip ==
    /\ \E name \in {"UndefinedExc", "BaseError", "RPCParseError"} \cup Defined,
          message \in WireMessages, data \in WireData :
        /\ New(classes, name, message, data).raised = ""
        /\ LET v == New(classes, name, message, data).value
               d == DumpInstance(v)
               out == Dispatch(registry, classes, d.code, d.message, d.data)
           IN exc_out' = [op |-> "roundtrip", args |-> v,
                          raised |-> out.raised, value |-> out.value]
    /\ UNCHANGED <<rpc, taxonomy, chrono>>

\* warnings.warn(BaseExc.dispatch(code, message, **data)) for each entry of
\* warnings, after those warned already: the warnings emitted, and the
\* exception of a dispatch that raised, which ends the loop
WarnAll(reg, cls_table, entries, warned) ==
    LET F[n \in 0 .. Len(entries)] ==
            IF n = 0 THEN [raised |-> "", warned |-> warned]
            ELSE LET before == F[n - 1]
                     out == Dispatch(reg, cls_table, entries[n].code,
                                     entries[n].message, entries[n].data)
                 IN IF before.raised /= "" THEN before
                    ELSE IF out.raised /= "" THEN [before EXCEPT !.raised = out.raised]
                    ELSE [before EXCEPT !.warned = Append(@, out.value)]
    IN F[Len(entries)]

\* Client.make_response on a decoded list: result and the warnings so far
\* after each response of the list
MakeBatch(reg, cls_table, list) ==
    LET F[n \in 0 .. Len(list)] ==
            IF n = 0 THEN [raised |-> "", returned |-> <<>>, warned |-> <<>>]
            ELSE LET before == F[n - 1]
                     w == WarnAll(reg, cls_table, list[n].warnings, before.warned)
                     e == list[n].error
                     out == Dispatch(reg, cls_table, e.code, e.message, e.data)
                 IN IF before.raised /= "" THEN before
                    ELSE IF w.raised /= ""
                    THEN [before EXCEPT !.raised = w.raised, !.warned = w.warned]
                    ELSE IF e = None
                    THEN [before EXCEPT !.returned = Append(@, list[n].result),
                                        !.warned = w.warned]
                    ELSE IF out.raised /= ""
                    THEN [before EXCEPT !.raised = out.raised, !.warned = w.warned]
                    ELSE [before EXCEPT !.returned = Append(@, out.value),
                                        !.warned = w.warned]
    IN F[Len(list)]

\* Client.make_response on the decoded body: what it raises (thrown is the
\* instance it made and raised, None for an exception of the call itself),
\* what it returns, and the warnings it emitted on the way
MakeResponse(reg, cls_table, response_data) ==
    IF response_data.list
    THEN LET b == MakeBatch(reg, cls_table, response_data.value)
         IN [raised |-> b.raised, thrown |-> None,
             returned |-> IF b.raised = "" THEN b.returned ELSE None,
             warned |-> b.warned]
    ELSE LET resp == response_data.value[1]
             w == WarnAll(reg, cls_table, resp.warnings, <<>>)
             e == resp.error
             out == Dispatch(reg, cls_table, e.code, e.message, e.data)
         IN IF w.raised /= ""
            THEN [raised |-> w.raised, thrown |-> None, returned |-> None,
                  warned |-> w.warned]
            ELSE IF e = None
            THEN [raised |-> "", thrown |-> None, returned |-> resp.result,
                  warned |-> w.warned]
            ELSE IF out.raised /= ""
            THEN [raised |-> out.raised, thrown |-> None, returned |-> None,
                  warned |-> w.warned]
            ELSE [raised |-> out.value.cls, thrown |-> out.value, returned |-> None,
                  warned |-> w.warned]

\* what Response.dump and BaseExc.dump leave of a warning and of an error
WireTriple(code, message, data) == [code |-> code, message |-> message, data |-> data]

NoData == [k \in {} |-> "bar"]

Deprecated == WireTriple("warning.rpc.deprecated", "API version is deprecated", NoData)

\* the responses of the wire: a result with two warnings, an error with a
\* warning, an error of a code the client does not know, and an error whose
\* data has the key code
WireResponses ==
    { [result |-> "3", error |-> None, warnings |-> << Deprecated, Deprecated >>],
      [result |-> NoResult,
       error |-> WireTriple("error.rpc.parse", "Parse error", [k \in {"foo"} |-> "bar"]),
       warnings |-> << Deprecated >>],
      [result |-> NoResult,
       error |-> WireTriple("invalid", "Custom error message", NoData),
       warnings |-> <<>>],
      [result |-> NoResult,
       error |-> WireTriple("error.rpc.parse", "Parse error", [k \in {"code"} |-> "bar"]),
       warnings |-> << Deprecated >>] }

RECURSIVE WireLists(_)
WireLists(n) ==
    IF n = 0 THEN {<<>>}
    ELSE WireLists(n - 1) \cup
         {Append(l, r) : l \in {x \in WireLists(n - 1) : Len(x) = n - 1},
                         r \in WireResponses}

\* the decoded bodies: one response (value holds it alone), or a list of up
\* to MaxBatch
WireBodies ==
    {[list |-> FALSE, value |-> << r >>] : r \in WireResponses}
        \cup {[list |-> TRUE, value |-> l] : l \in WireLists(MaxBatch)}

\* Client.make_response(response_body): Client.request and Client.batch call
\* it once, on the body of their one post
ClientMakeResponse ==
    /\ exc_out.op /= "make_response"
    /\ \E response_data \in WireBodies :
        LET out == MakeResponse(registry, classes, response_data)
        IN exc_out' = [op |-> "make_response", args |-> response_data,
                       raised |-> out.raised,
                       value |-> [thrown |-> out.thrown, returned |-> out.returned,
                                  warned |-> out.warned]]
    /\ UNCHANGED <<rpc, taxonomy, chrono>>

ExcInit == Start(<<>>)

ExcNext ==
    \/ Define
    \/ DispatchExc
    \/ RoundTrip

ExcSpec == ExcInit /\ [][ExcNext]_vars

\* the client: the classes it has defined, and the bodies it is given
ClientNext ==
    \/ Define
    \/ ClientMakeResponse

ClientSpec == ExcInit /\ [][ClientNext]_vars

(***************************************************************************)
(* myack/timer.py: the Timer, a clock that tests move.  Time is counted in *)
(* ticks, and a float sits in a 1-tuple where None can stand beside it.    *)
(***************************************************************************)
\* where goto sends the clock: dt.timestamp()
GotoTargets == {20, 40}

\* what shift is given: td.total_seconds()
ShiftAmounts == {0 - 10, 0, 5}

\* Timer.tsnow
Tsnow(now, current, updated) ==
    IF current = None \/ updated = None
    THEN now
    ELSE current[1] + now - updated[1]

\* Timer.shift: the pair <<_current, _updated>> it leaves
ShiftedTo(now, current, td) ==
    LET updated == << now >>
        start == IF current = None THEN updated ELSE current
    IN << << start[1] + td >>, updated >>

TimerCall(op, td, before) ==
    [op |-> op, td |-> td, before |-> before,
     after |-> Tsnow(time, _current', _updated'), n |-> timer_out.n + 1]

\* real time passes
Elapse ==
    /\ \E d \in 1 .. MaxTime :
        /\ time + d <= MaxTime
        /\ time' = time + d
    /\ UNCHANGED <<rpc, taxonomy, exc_out, _current, _updated, timer_out>>

\* Timer.goto
Goto ==
    /\ timer_out.n < MaxCalls
    /\ \E ts \in GotoTargets :
        /\ _current' = << ts >>
        /\ _updated' = << time >>
        /\ timer_out' = TimerCall("goto", ts, Tsnow(time, _current, _updated))
    /\ UNCHANGED <<rpc, taxonomy, exc_out, time>>

\* Timer.shift
Shift ==
    /\ timer_out.n < MaxCalls
    /\ \E td \in ShiftAmounts :
        /\ _current' = ShiftedTo(time, _current, td)[1]
        /\ _updated' = ShiftedTo(time, _current, td)[2]
        /\ timer_out' = TimerCall("shift", td, Tsnow(time, _current, _updated))
    /\ UNCHANGED <<rpc, taxonomy, exc_out, time>>

\* Timer.reset
Reset ==
    /\ timer_out.n < MaxCalls
    /\ _current' = None
    /\ _updated' = None
    /\ timer_out' = TimerCall("reset", 0, Tsnow(time, _current, _updated))
    /\ UNCHANGED <<rpc, taxonomy, exc_out, time>>

\* the Timer after on_setup, which resets it
TimerInit == Start(<<>>)

TimerNext ==
    \/ Elapse
    \/ Goto
    \/ Shift
    \/ Reset

TimerSpec == TimerInit /\ [][TimerNext]_vars

(***************************************************************************)
(* Properties.                                                              *)
(***************************************************************************)
ItemIds == {1}

Item(i) == items[i]

Live(i) == i \in DOMAIN items

\* the versions of the registered APIVersions
Registered == {depends_on[n].version : n \in 1 .. Len(depends_on)}

\* a version was selected for the item
Versioned(i) == Live(i) /\ Item(i).ctx \notin {"", "App"}

\* the version that serves the item: None on the unversioned path
Served(i) ==
    IF Versioned(i) THEN depends_on[VIndex(depends_on, Item(i).ctx)].version ELSE None

Coded(cls) == "BaseError" \in Bases(cls)

\* the handler of the item raised e and the wrapper saw it
HandlerRaised(i) ==
    /\ Live(i)
    /\ Item(i).pc \in {"raised", "done"}
    /\ Item(i).htask = "raised"
    /\ ~Item(i).cancelled

Declared(i) ==
    /\ IsInstance(Item(i).hout.cls, Item(i).req.handler.info.raises)
    /\ Coded(Item(i).hout.cls)

\* what dispatch raised, from the moment it is raised to the Response carrying it
Failure(i) ==
    IF Item(i).pc = "done" THEN Item(i).resp.error ELSE Item(i).exc

\* C1: a selected version is the requested one when that is registered, and
\* otherwise the registered version of the same major with the smallest
\* greater minor.
C1_SelectedVersion ==
    \A i \in ItemIds :
        Versioned(i) =>
            LET r == Item(i).raw.version
                s == Served(i)
            IN /\ s \in Registered
               /\ s[1] = r[1]
               /\ s[2] >= r[2]
               /\ r \in Registered => s = r
               /\ \A v \in Registered : v[1] = r[1] /\ v[2] >= r[2] => s[2] <= v[2]

\* two greater minors were registered, the greater one first, and the smaller
\* one serves
C1_Witness ==
    \E i \in ItemIds :
        /\ Versioned(i)
        /\ Item(i).raw.version \notin Registered
        /\ Len(depends_on) = 2
        /\ depends_on[1].version[1] = depends_on[2].version[1]
        /\ depends_on[1].version[2] > depends_on[2].version[2]
        /\ depends_on[2].version[2] > Item(i).raw.version[2]
        /\ Served(i) = depends_on[2].version

Unsupported(i) ==
    /\ Item(i).pc \in {"raised", "done"}
    /\ Failure(i) /= None
    /\ Failure(i).cls = "RPCUnsupportedVersion"

\* C2: a versioned request fails as unsupported exactly when no registered
\* version has its major with a minor at least the requested one, and the
\* error carries the requested pair and nothing else.
C2_UnsupportedVersion ==
    \A i \in ItemIds :
        (Live(i) /\ Item(i).pc \notin {"load", "api"} /\ Item(i).raw.version /= None) =>
            LET r == Item(i).raw.version
            IN /\ Unsupported(i) <=>
                      (\A v \in Registered : v[1] /= r[1] \/ v[2] < r[2])
               /\ Unsupported(i) => Failure(i).data = [version |-> r]

\* the major is registered, with smaller minors only
C2_Witness ==
    \E i \in ItemIds :
        /\ Live(i)
        /\ Item(i).pc = "done"
        /\ Unsupported(i)
        /\ \E v \in Registered : v[1] = Item(i).raw.version[1]

\* position of a component among the scopes of a dispatch, outermost first
ScopeRank(c) ==
    IF c = "App" THEN 0 ELSE IF c \in Namespaces THEN NsLevel(c) + 1 ELSE 1

\* the scopes on the path of the item: the API, the selected version, the
\* namespaces down to the one of the handler
Scopes(i) ==
    {"App"} \cup (IF Versioned(i) THEN {Item(i).ctx} ELSE {})
            \cup (IF Item(i).req.handler.self \in Namespaces
                  THEN {NsId(k) : k \in 1 .. NsLevel(Item(i).req.handler.self)}
                  ELSE {})

ScopeMiddlewares(i) ==
    UNION {{Bound(c, a) : a \in {b \in Range(Attrs(c, depends_on)) : b.kind = "middleware"}} :
              c \in Scopes(i)}

TagsOf(ms) ==
    LET F[n \in 0 .. Len(ms)] ==
            IF n = 0 THEN <<>>
            ELSE IF ms[n].name \in {"middleware_1", "middleware_2"}
                 THEN Append(F[n - 1], Tag(ms[n]))
                 ELSE F[n - 1]
    IN F[Len(ms)]

Succeeded(i) == Live(i) /\ Item(i).pc = "done" /\ Item(i).resp.error = None

\* C3: the before parts run outermost scope first (API, version, namespaces
\* outer to inner) and by ascending priority within a scope, then the handler;
\* the after parts complete in the reverse order, which response.meta records.
C3_MiddlewareOrder ==
    \A i \in ItemIds :
        /\ (Live(i) /\ Item(i).htask /= "none") =>
            LET e == Item(i).entered
            IN /\ Range(e) = ScopeMiddlewares(i)
               /\ Len(e) = Cardinality(ScopeMiddlewares(i))
               /\ \A a, b \in 1 .. Len(e) :
                    a < b =>
                        \/ ScopeRank(e[a].self) < ScopeRank(e[b].self)
                        \/ e[a].self = e[b].self /\ e[a].order <= e[b].order
        /\ Succeeded(i) =>
            /\ Item(i).exited = Reversed(Item(i).entered)
            /\ Item(i).resp.meta.middlewares = TagsOf(Item(i).exited)
            /\ (Item(i).raw.method = "foo.div" /\ ~Versioned(i)) =>
                    Item(i).resp.meta.middlewares =
                        << "ns1.middleware_2", "ns1.middleware_1",
                           "App.middleware_2", "App.middleware_1" >>
            /\ (Item(i).raw.method = "foo.div" /\ Versioned(i)) =>
                    Item(i).resp.meta.middlewares =
                        << "ns1.middleware_2", "ns1.middleware_1",
                           Item(i).ctx \o ".middleware_2", Item(i).ctx \o ".middleware_1",
                           "App.middleware_2", "App.middleware_1" >>

\* a versioned dispatch through two namespaces ran its whole chain
C3_Witness ==
    \E i \in ItemIds :
        /\ Succeeded(i)
        /\ Versioned(i)
        /\ Item(i).req.handler.self = NsId(2)
        /\ Len(Item(i).exited) = 9

\* C4: after setup the handler of the namespace of level k is in the routing
\* table of every dispatcher above it under its full dot-separated path
\* n1.n2. ... .nk.h, with the chain (n1, ..., nk) of namespaces, for every k.
C4_FullPathRouted ==
    phase = "ready" =>
        \A d \in Dispatchers(depends_on) :
            \A k \in 2 .. MaxDepth :
                /\ DictHas(_methods[d], FullPath(k))
                /\ DictGet(_methods[d], FullPath(k)).handler.self = NsId(k)
                /\ DictGet(_methods[d], FullPath(k)).namespaces = [n \in 1 .. k |-> NsId(n)]

\* C5: a declared coded error of the handler leaves dispatch as the same
\* variant, its data extended by the method and the served version.
C5_DeclaredErrorPassed ==
    \A i \in ItemIds :
        (HandlerRaised(i) /\ Declared(i)) =>
            /\ Failure(i).cls = Item(i).hout.cls
            /\ Failure(i).by = "handler"
            /\ Failure(i).data =
                   DataUpdate(Item(i).hout.data,
                              [method |-> Item(i).raw.method, version |-> Served(i)])

\* a versioned call of foo.div ended with the handler's DivisionByZero, the
\* served version differing from the requested one
C5_Witness ==
    \E i \in ItemIds :
        /\ HandlerRaised(i)
        /\ Item(i).pc = "done"
        /\ Item(i).hout.cls = "DivisionByZero"
        /\ Item(i).resp.error.cls = "DivisionByZero"
        /\ Versioned(i)
        /\ Served(i) /= Item(i).raw.version

\* C6: an exception of the handler that is undeclared, or declared but not a
\* coded error, leaves dispatch as the internal error with data {method,
\* version}, never as itself.
C6_UndeclaredMasked ==
    \A i \in ItemIds :
        (HandlerRaised(i) /\ ~Declared(i)) =>
            /\ Failure(i).cls = "RPCInternalError"
            /\ Failure(i).cls /= Item(i).hout.cls
            /\ Failure(i).data = [method |-> Item(i).raw.method, version |-> Served(i)]

\* the handler raised an exception of a declared type that is not a coded error
C6_Witness ==
    \E i \in ItemIds :
        /\ HandlerRaised(i)
        /\ Item(i).pc = "done"
        /\ IsInstance(Item(i).hout.cls, Item(i).req.handler.info.raises)
        /\ ~Coded(Item(i).hout.cls)
        /\ Item(i).resp.error.cls = "RPCInternalError"

\* the item went through api.dispatch and handle_raw answered with an error
ErrorResponse(i) ==
    /\ Live(i)
    /\ Item(i).pc = "done"
    /\ Item(i).req /= None
    /\ Item(i).resp.error /= None

\* C7 as claimed: the error of a response is a built-in RPC error or of a type
\* the resolved handler declares; a middleware's own error arrives as internal
\* error only.
C7_OnlyDeclaredOrBuiltin ==
    \A i \in ItemIds :
        ErrorResponse(i) =>
            \/ Item(i).resp.error.cls \in RPCErrors
            \/ /\ Item(i).req.handler /= None
               /\ IsInstance(Item(i).resp.error.cls, Item(i).req.handler.info.raises)

\* C7 as amended: the error of a response is a built-in RPC error, a declared
\* coded error raised by the handler, or a coded error raised by a middleware;
\* what else the handler raises, and a middleware's exception outside the
\* taxonomy, arrive as internal error.
C7_ErrorsOnTheWire ==
    \A i \in ItemIds :
        ErrorResponse(i) =>
            LET e == Item(i).resp.error
            IN /\ \/ e.cls \in RPCErrors
                  \/ /\ e.by = "handler"
                     /\ e.cls = Item(i).hout.cls
                     /\ Declared(i)
                  \/ /\ e.by = "middleware"
                     /\ Coded(e.cls)
               /\ Coded(e.cls)
               /\ (Item(i).exc.by = "middleware" /\ ~Coded(Item(i).exc.cls)) =>
                      e.cls = "RPCInternalError"
               /\ (HandlerRaised(i) /\ ~Declared(i)) => e.cls = "RPCInternalError"

\* a middleware's coded error is the error of the response
C7_Witness ==
    \E i \in ItemIds :
        /\ ErrorResponse(i)
        /\ Item(i).resp.error.by = "middleware"
        /\ Item(i).resp.error.cls = "Unauthorized"
        /\ Item(i).req.handler /= None

\* C8: a call cancelled while its handler is in progress ends with the
\* cancellation: no Response, and no error in place of the CancelledError.
C8_CancellationPropagates ==
    \A i \in ItemIds :
        (Live(i) /\ Item(i).cancelled) =>
            /\ Item(i).pc \in {"raised", "cancelled"}
            /\ Item(i).exc.cls = CancelledError
            /\ Item(i).resp = None

\* handle_raw of a call with a shielded handler ended with the cancellation
C8_Witness ==
    \E i \in ItemIds :
        /\ Live(i)
        /\ Item(i).cancelled
        /\ Item(i).pc = "cancelled"
        /\ Item(i).req.handler.info.shield

Shielded(i) == Live(i) /\ Item(i).req /= None /\ Item(i).req.handler /= None
                       /\ Item(i).req.handler.info.shield

HandlerIn(i, states) == Live(i) /\ Item(i).htask \in states

AbandonedRunning(i) == Live(i) /\ Item(i).cancelled /\ Item(i).hcancel = "running"

\* C9: a shielded handler whose caller is cancelled while it runs is not
\* cancelled, and it runs to its end.
C9_ShieldedCompletes ==
    \A i \in ItemIds :
        /\ [](~(Shielded(i) /\ HandlerIn(i, {"cancelled"})))
        /\ (Shielded(i) /\ AbandonedRunning(i)) ~> HandlerIn(i, {"returned", "raised"})

\* a shielded handler returned after its caller was cancelled
C9_Witness ==
    \E i \in ItemIds :
        /\ Shielded(i)
        /\ AbandonedRunning(i)
        /\ Item(i).pc = "cancelled"
        /\ Item(i).htask = "returned"

\* C10: an unshielded handler is cancelled with its caller: it does not
\* complete after that, and the dispatcher gets the CancelledError.
C10_UnshieldedCancelled ==
    \A i \in ItemIds :
        (Live(i) /\ Item(i).cancelled /\ ~Item(i).req.handler.info.shield) =>
            /\ Item(i).hcancel = "running"
            /\ Item(i).htask = "cancelled"
            /\ Item(i).exc.cls = CancelledError
            /\ Item(i).exc.by = "task"

\* the cancellation of an unshielded handler left handle_raw
C10_Witness ==
    \E i \in ItemIds :
        /\ Live(i)
        /\ Item(i).cancelled
        /\ ~Item(i).req.handler.info.shield
        /\ Item(i).htask = "cancelled"
        /\ Item(i).pc = "cancelled"

(***************************************************************************)
(* The exchange: batches, the output and the envelope.                      *)
(***************************************************************************)
\* the body of the exchange is a list
Batched == IF task = "none" THEN FALSE ELSE body.list

Valid(raw) == DOMAIN EnvelopeErrors(raw) = {}

\* the error the item's own course leads to: the coded error its dispatch
\* raised as it is, the internal error for anything else
OwnError(it) ==
    IF Coded(it.exc.cls) THEN it.exc.cls ELSE "RPCInternalError"

\* the Response of an item is the one of its own payload and its own course
OwnOutcome(it) ==
    /\ it.resp.id = RecoveredId(it.raw)
    /\ ~Valid(it.raw) =>
            /\ it.req = None
            /\ it.resp.error /= None
            /\ it.resp.error.cls = "RPCInvalidRequest"
    /\ (Valid(it.raw) /\ it.raw.method = "foo.undefined") =>
            /\ it.resp.error /= None
            /\ it.resp.error.cls = "RPCUndefinedMethod"
            /\ it.resp.error.data.method = it.raw.method
    /\ (Valid(it.raw) /\ it.raw.method /= "foo.undefined") =>
            /\ (it.resp.error = None) <=> (it.htask = "returned" /\ it.exc = NoExc)
            /\ it.resp.error = None => it.resp.result = HandlerResult(it.raw.method)
            /\ it.resp.error /= None =>
                    /\ it.exc /= NoExc
                    /\ it.resp.error.cls = OwnError(it)
                    /\ it.resp.result = NoResult

\* every Response of the batch can be encoded
Encodable == \A i \in DOMAIN items : Serializable(items[i].resp.result)

\* alone or in a batch, an item ends as its own payload and course have it,
\* and its Response is the output, or in its place of the output
IndependentOutcomes ==
    /\ \A i \in DOMAIN items :
        /\ (items[i].pc = "cancelled" \/ items[i].cancelled) =>
                task \in {"cancelling", "cancelled"}
        /\ items[i].pc = "done" => OwnOutcome(items[i])
    /\ (task = "returned" /\ Encodable) =>
            IF Batched
            THEN /\ Len(json_response) = Len(items)
                 /\ \A i \in DOMAIN items : json_response[i] = Dump(items[i].resp)
            ELSE json_response = Dump(items[1].resp)

\* a step of an item leaves its siblings as they are, unless it is the
\* cancellation of the whole exchange
IsolatedStep ==
    \A i \in DOMAIN items :
        (i \in DOMAIN items' /\ items'[i] /= items[i]) =>
            \/ task = "running" /\ task' = "cancelling"
            \/ \A j \in DOMAIN items \ {i} : items'[j] = items[j]

C12_OutputAfterAllItems ==
    /\ task /= "returned" => json_response = None
    /\ (Batched /\ task = "returned") =>
            \A i \in DOMAIN items :
                /\ items[i].pc = "done"
                /\ items[i].resp /= None
                /\ items[i].htask /= "running"

\* the second item failed on its envelope, the first went through its handler,
\* and the output came after both
C12_Witness ==
    /\ Batched
    /\ task = "returned"
    /\ Len(items) = 2
    /\ items[2].req = None
    /\ items[2].resp.error /= None
    /\ items[1].htask = "returned"
    /\ Len(json_response) = 2
    /\ json_response[2].id = NoId

UndefinedMethod(i) ==
    /\ Live(i)
    /\ Item(i).pc \in {"raised", "done"}
    /\ Failure(i) /= None
    /\ Failure(i).cls = "RPCUndefinedMethod"

\* the dispatcher that serves the item has looked the method up
LookedUp(i) ==
    /\ Live(i)
    /\ Item(i).req /= None
    /\ Item(i).ctx /= ""
    /\ Item(i).pc /= "lookup"

\* C13: a method that is not in the routing table of the dispatcher serving
\* the request fails as undefined method, and the data of the error is exactly
\* {method: the requested name, version: the served version}, the version
\* being null for an unversioned request.
C13_UndefinedMethod ==
    \A i \in ItemIds :
        /\ LookedUp(i) =>
                (UndefinedMethod(i) <=> ~DictHas(_methods[Item(i).ctx], Item(i).raw.method))
        /\ UndefinedMethod(i) =>
                /\ LookedUp(i)
                /\ Failure(i).data =
                       [method |-> Item(i).raw.method, version |-> Served(i)]
                /\ Item(i).raw.version = None => Failure(i).data.version = None
                /\ Item(i).raw.version /= None =>
                       Failure(i).data.version \in Registered

\* foo.undefined asked at (2, 0) and served by (2, 1)
C13_Witness ==
    \E i \in ItemIds :
        /\ UndefinedMethod(i)
        /\ Item(i).pc = "done"
        /\ Item(i).raw.method = "foo.undefined"
        /\ Item(i).raw.version = <<2, 0>>
        /\ Item(i).resp.error.data = [method |-> "foo.undefined", version |-> <<2, 1>>]

InvalidParams(i) ==
    /\ Live(i)
    /\ Item(i).pc \in {"raised", "done"}
    /\ Failure(i) /= None
    /\ Failure(i).cls = "RPCInvalidParams"

\* the handler is resolved and the params went through its schema
Validated(i) ==
    /\ Live(i)
    /\ Item(i).req /= None
    /\ Item(i).req.handler /= None
    /\ Item(i).pc /= "validate"

\* the fields of params the schema objects to: absent, unknown, of another type
Offending(schema, params) ==
    {k \in DOMAIN schema : k \notin DOMAIN params}
        \cup {k \in DOMAIN params : k \notin DOMAIN schema}
        \cup {k \in (DOMAIN params) \cap (DOMAIN schema) : params[k] /= schema[k]}

\* C14: params that fail the schema of the resolved handler end the dispatch
\* with the invalid-params error, whose data is exactly {reason, method,
\* version}: reason has one key per offending field, method is the requested
\* name and version the served version.
C14_InvalidParams ==
    \A i \in ItemIds :
        /\ Validated(i) =>
                (InvalidParams(i) <=>
                    Offending(Item(i).req.handler.info.schema, Item(i).raw.params) /= {})
        /\ InvalidParams(i) =>
                /\ Validated(i)
                /\ DOMAIN Failure(i).data = {"reason", "method", "version"}
                /\ DOMAIN Failure(i).data.reason =
                       Offending(Item(i).req.handler.info.schema, Item(i).raw.params)
                /\ Failure(i).data.method = Item(i).raw.method
                /\ Failure(i).data.version = Served(i)
                /\ Item(i).htask = "none"

\* x given as a string to foo.div, asked at one version and served by another
C14_Witness ==
    \E i \in ItemIds :
        /\ InvalidParams(i)
        /\ Item(i).pc = "done"
        /\ Item(i).raw.method = "foo.div"
        /\ Versioned(i)
        /\ Served(i) /= Item(i).raw.version
        /\ DOMAIN Item(i).resp.error.data.reason = {"x"}
        /\ Item(i).resp.error.data.version = Served(i)

\* C15: once a versioned dispatch selected the version V, request.meta.version
\* is V, the served version, also when another minor was asked for, and a
\* successful response has meta.version equal to V (no middleware of the
\* object graph sets meta.version before set_version_info does).
C15_ServedVersionInMeta ==
    \A i \in ItemIds :
        /\ Versioned(i) =>
                /\ Item(i).req.version = Served(i)
                /\ Served(i) \in Registered
        /\ (Succeeded(i) /\ Versioned(i)) => Item(i).resp.meta.version = Served(i)

\* (2, 0) was asked for, (2, 1) served, and the response says (2, 1)
C15_Witness ==
    \E i \in ItemIds :
        /\ Succeeded(i)
        /\ Versioned(i)
        /\ Item(i).raw.version = <<2, 0>>
        /\ Item(i).req.version = <<2, 1>>
        /\ Item(i).resp.meta.version = <<2, 1>>

\* the APIVersion that serves the item is flagged deprecated
ServedDeprecated(i) ==
    Versioned(i) /\ depends_on[VIndex(depends_on, Item(i).ctx)].deprecated

\* C16: a successful response served by a deprecated APIVersion carries
\* exactly one warning, the deprecated-version warning; one served by another
\* version, or on the unversioned path, carries no warning.
C16_DeprecationWarning ==
    \A i \in ItemIds :
        Succeeded(i) =>
            /\ ServedDeprecated(i) =>
                    /\ Len(Item(i).resp.warnings) = 1
                    /\ Item(i).resp.warnings[1].cls = "RPCDeprecatedVersion"
            /\ ~ServedDeprecated(i) => Item(i).resp.warnings = <<>>

\* (1, 0) is deprecated and served the call; the warning is in the output
C16_Witness ==
    \E i \in ItemIds :
        /\ Succeeded(i)
        /\ ServedDeprecated(i)
        /\ Served(i) = <<1, 0>>
        /\ task = "returned"
        /\ Len(json_response.warnings) = 1
        /\ json_response.warnings[1].code = "warning.rpc.deprecated"
        /\ json_response.error = None

\* the places of the version-info middleware in a sequence of middleware
Places(ms) == {n \in 1 .. Len(ms) : ms[n].name = "set_version_info"}

\* the chain of a versioned dispatch was entered down to the handler
ChainEntered(i) == Versioned(i) /\ Item(i).htask /= "none"

Unversioned(i) ==
    /\ Live(i)
    /\ Item(i).req /= None
    /\ Item(i).raw.version = None
    /\ Item(i).pc /= "api"

\* the components a MethodDef belongs to
Owners(md) == {md.handler.self} \cup Range(md.namespaces)

\* C18: a request without a version (or with a null one) is dispatched on the
\* API itself: a name resolves exactly when it is in the API's own routing
\* table, which holds nothing of an APIVersion; no APIVersion is selected, no
\* middleware of an APIVersion runs, and a successful response has no
\* meta.version.
C18_UnversionedOnApi ==
    \A i \in ItemIds :
        Unversioned(i) =>
            /\ Item(i).ctx = "App"
            /\ ~Versioned(i)
            /\ Item(i).req.version = None
            /\ \A n \in 1 .. Len(_methods["App"]) :
                    Owners(_methods["App"][n][2]) \cap VersionIds(depends_on) = {}
            /\ Item(i).pc /= "lookup" =>
                    ((Item(i).req.handler /= None) <=>
                        DictHas(_methods["App"], Item(i).raw.method))
            /\ \A n \in 1 .. Len(Item(i).req.middlewares) :
                    Item(i).req.middlewares[n].self \notin VersionIds(depends_on)
            /\ \A n \in 1 .. Len(Item(i).entered) :
                    Item(i).entered[n].self \notin VersionIds(depends_on)
            /\ Succeeded(i) =>
                    /\ Item(i).resp.meta.version = None
                    /\ Item(i).resp.warnings = <<>>

\* foo.div without a version, with two APIVersions registered that have it too
C18_Witness ==
    \E i \in ItemIds :
        /\ Unversioned(i)
        /\ Succeeded(i)
        /\ Len(depends_on) = 2
        /\ Item(i).raw.method = "foo.div"
        /\ Len(Item(i).exited) = 5
        /\ Item(i).resp.meta.version = None

\* the output is one Response, no list
Single(out) == DOMAIN out = {"id", "meta", "result", "error", "warnings"}

\* handle_json returned although a Response could not be encoded
EncodingFailed ==
    /\ task = "returned"
    /\ \E i \in DOMAIN items : ~Serializable(items[i].resp.result)

\* C19: when the output cannot be encoded, the whole output, of a single
\* request and of a batch alike, is one Response, no list, whose error is the
\* internal error: no Response of an item of the batch is emitted.
C19_EncodingFailure ==
    EncodingFailed =>
        /\ Single(json_response)
        /\ json_response.error /= None
        /\ json_response.error.code = "error.rpc.internal"
        /\ json_response.id = NoId
        /\ json_response.result = NoResult
        /\ \A i \in DOMAIN items : json_response /= Dump(items[i].resp)

\* a batch of two, the first item fine and the second with a result the codec
\* cannot represent, answered by one internal error
C19_Witness ==
    /\ EncodingFailed
    /\ Batched
    /\ Len(items) = 2
    /\ items[1].resp.error = None
    /\ items[1].resp.result = "sum()"
    /\ items[2].resp.result = "object()"
    /\ json_response.error.code = "error.rpc.internal"

\* a field of the envelope the payload has wrong: the payload itself (under
\* the empty key) when it is no object, a required key it lacks, an id that
\* is no integer
OffendingField(raw, k) ==
    IF raw.kind /= "dict" THEN k = ""
    ELSE /\ k \in {"id", "method"}
         /\ k \notin raw.keys \/ (k = "id" /\ PyType(raw.id) /= "int")

\* the id of the claim: the payload's own when the payload is an object whose
\* id is an integer, null otherwise
IntegerIdOrNull(raw) ==
    IF raw.kind = "dict" /\ "id" \in raw.keys /\ PyType(raw.id) = "int"
    THEN raw.id
    ELSE NoId

\* the dispatch of the API never saw the item
NotDispatched(it) ==
    /\ it.req = None
    /\ it.ctx = ""
    /\ it.chain = <<>>
    /\ it.entered = <<>>
    /\ it.htask = "none"

\* C20: an item whose payload fails the validation of the envelope is never
\* handed to the dispatch of the API, and its Response carries
\* RPCInvalidRequest with a reason keyed by the offending fields, no result,
\* and as id the payload's id when the payload is an object whose id is an
\* integer, null otherwise
C20_InvalidEnvelope ==
    \A i \in DOMAIN items :
        ~Valid(items[i].raw) =>
            /\ NotDispatched(items[i])
            /\ items[i].pc = "done" =>
                LET resp == items[i].resp
                IN /\ resp.error /= None
                   /\ resp.error.cls = "RPCInvalidRequest"
                   /\ DOMAIN resp.error.data.reason /= {}
                   /\ \A k \in DOMAIN resp.error.data.reason :
                        OffendingField(items[i].raw, k)
                   /\ resp.result = NoResult
                   /\ resp.id = IntegerIdOrNull(items[i].raw)

\* the claim of C20 but for the id: what does hold of the refused payloads
C20_ButTheId ==
    \A i \in DOMAIN items :
        ~Valid(items[i].raw) =>
            /\ NotDispatched(items[i])
            /\ items[i].pc = "done" =>
                LET resp == items[i].resp
                IN /\ resp.error /= None
                   /\ resp.error.cls = "RPCInvalidRequest"
                   /\ DOMAIN resp.error.data.reason /= {}
                   /\ \A k \in DOMAIN resp.error.data.reason :
                        OffendingField(items[i].raw, k)
                   /\ resp.result = NoResult
                   /\ PyType(items[i].raw.id) /= "bool" =>
                        resp.id = IntegerIdOrNull(items[i].raw)

\* the output is the one Response of a parse error with the reason of the decoder
ParseErrorOutput ==
    /\ task = "returned"
    /\ Single(json_response)
    /\ json_response.id = NoId
    /\ json_response.result = NoResult
    /\ json_response.error /= None
    /\ json_response.error.code = "error.rpc.parse"
    /\ json_response.error.data = [reason |-> Loadb(json_request).reason]

\* C21: when the body of the request does not decode, the transport returns
\* one response with a null id, no result and the parse error that carries
\* the reason of the decoder, and nothing is dispatched
C21_ParseError ==
    json_request \in UndecodableBodies =>
        /\ items = <<>>
        /\ ParseErrorOutput

\* the claim of C21 for the bodies whose decoding ends with a ValueError or a
\* TypeError: what does hold
C21_ValueOrTypeError ==
    (/\ json_request \in UndecodableBodies
     /\ Loadb(json_request).raised \in {"ValueError", "TypeError"}) =>
        /\ items = <<>>
        /\ ParseErrorOutput

\* every class that exists is the one registered under its code, and the
\* registry holds classes that exist: no two classes share a code
OneVariantPerCode ==
    /\ \A n \in DOMAIN classes :
        /\ classes[n].code \in DOMAIN registry
        /\ registry[classes[n].code] = n
    /\ \A c \in DOMAIN registry : registry[c] \in DOMAIN classes

\* a step keeps every registration; a class statement whose composed code is
\* registered ends with the AssertionError and changes nothing, any other
\* class statement registers its class under the composed code, and a
\* dispatch leaves the registry as it is
RegistrationsKept ==
    /\ \A c \in DOMAIN registry :
        /\ c \in DOMAIN registry'
        /\ registry'[c] = registry[c]
    /\ exc_out'.op = "class" =>
        LET code == IF exc_out'.args.base \in DOMAIN classes
                    THEN classes[exc_out'.args.base].code \o "." \o exc_out'.args.short
                    ELSE exc_out'.args.short
        IN IF code \in DOMAIN registry
           THEN /\ exc_out'.raised = "AssertionError"
                /\ UNCHANGED taxonomy
           ELSE /\ exc_out'.raised = ""
                /\ DOMAIN registry' = DOMAIN registry \cup {code}
                /\ registry'[code] = exc_out'.args.name
    /\ exc_out'.op \in {"dispatch", "roundtrip"} => UNCHANGED taxonomy

\* C22: the registry maps every code to exactly one variant at all times: a
\* class statement whose composed code is already registered fails with an
\* AssertionError and leaves the registration as it was, and no registration
\* is removed or replaced by a later class statement or by a dispatch
C22_RegistryUnique == [] OneVariantPerCode /\ [][RegistrationsKept]_vars

\* a class statement has just failed on the code of RPCParseError, which is
\* still registered
C22_Witness ==
    /\ exc_out.op = "class"
    /\ exc_out.raised = "AssertionError"
    /\ exc_out.args.base = "RPCError"
    /\ exc_out.args.short = "parse"
    /\ registry["error.rpc.parse"] = "RPCParseError"
    /\ exc_out.args.name \notin DOMAIN classes

\* the short codes of the chain of bases of a class, from the root, joined by dots
RECURSIVE ChainCode(_)
ChainCode(name) ==
    IF classes[name].base \in DOMAIN classes
    THEN ChainCode(classes[name].base) \o "." \o classes[name].short
    ELSE classes[name].short

\* C23: the code of every variant is the code of its nearest coded ancestor,
\* a dot, and its own short code, and the short code alone without a coded
\* ancestor, at every depth of the chain: error, rpc, invalid_params give
\* error.rpc.invalid_params
C23_CodeComposition ==
    /\ \A n \in DOMAIN classes :
        /\ classes[n].code = ChainCode(n)
        /\ classes[n].code =
                IF classes[n].base \in DOMAIN classes
                THEN classes[classes[n].base].code \o "." \o classes[n].short
                ELSE classes[n].short
    /\ classes["BaseError"].code = "error"
    /\ classes["RPCError"].code = "error.rpc"
    /\ classes["RPCInvalidParams"].code = "error.rpc.invalid_params"
    /\ \A n \in RPCErrors \cup {"RPCDeprecatedVersion"} : Code(n) = classes[n].code

\* TestError was defined under RPCError, three classes below BaseExc
C23_Witness ==
    /\ "TestError" \in Defined
    /\ classes["TestError"].base = "RPCError"
    /\ classes["TestError"].code = "error.rpc.test"

\* C24: an instance v of a registered variant comes back from its dump d
\* through BaseExc.dispatch(d.code, d.message, **d.data) as an instance equal
\* to v, whatever data v carries
C24_RoundTrip ==
    exc_out.op = "roundtrip" =>
        /\ exc_out.raised = ""
        /\ InstanceEq(exc_out.value, exc_out.args)

\* the claim of C24 for the instances whose data has no key named as a
\* parameter of dispatch: what does hold
C24_UnlessKeyword ==
    (exc_out.op = "roundtrip" /\ DOMAIN exc_out.args.data \cap {"cls", "code"} = {}) =>
        /\ exc_out.raised = ""
        /\ InstanceEq(exc_out.value, exc_out.args)

\* C25: BaseExc.dispatch with a code that is not registered returns an
\* instance of UndefinedExc, with the code undefined and its default message,
\* whose data is exactly {original: {code, message, data}} of the call
C25_UndefinedVariant ==
    (exc_out.op = "dispatch" /\ exc_out.args.code \notin DOMAIN registry) =>
        /\ exc_out.raised = ""
        /\ exc_out.value =
                Instance("UndefinedExc", "undefined", "Undefined exception",
                         [original |-> exc_out.args])

\* the claim of C25 for the data without a key named as a parameter of
\* dispatch: what does hold
C25_UnlessKeyword ==
    (/\ exc_out.op = "dispatch"
     /\ exc_out.args.code \notin DOMAIN registry
     /\ DOMAIN exc_out.args.data \cap {"cls", "code", "message"} = {}) =>
        /\ exc_out.raised = ""
        /\ exc_out.value =
                Instance("UndefinedExc", "undefined", "Undefined exception",
                         [original |-> exc_out.args])

\* C26: BaseExc.dispatch(code, message, **data) returns an instance for every
\* triple of the wire: a registered code or not, a message or null, any keys
\* of data
C26_DispatchTotal ==
    exc_out.op = "dispatch" =>
        /\ exc_out.raised = ""
        /\ exc_out.value /= None

\* dispatch does return when no key of data is named as a parameter of
\* dispatch or of __init__ and the class has a message or the wire gives one
C26_UnlessKeywordOrNoMessage ==
    (/\ exc_out.op = "dispatch"
     /\ DOMAIN exc_out.args.data \cap {"cls", "code", "message", "self"} = {}
     /\ \/ exc_out.args.code \notin DOMAIN registry
        \/ exc_out.args.message /= NoMessage
        \/ MessageOf(classes, registry[exc_out.args.code]) /= NoMessage) =>
        /\ exc_out.raised = ""
        /\ exc_out.value /= None

\* the handler of item i is the builtin `name`, and it ran to its end
RanBuiltin(i, name) ==
    /\ items[i].pc = "done"
    /\ items[i].req /= None
    /\ items[i].req.handler /= None
    /\ items[i].req.handler.name = name
    /\ items[i].htask \in {"returned", "raised"}
    /\ ~items[i].cancelled

\* the entries are the methods of the table, one each, sorted by name, each
\* with the codes of the declared classes as a list
EntriesRight(methods, entries) ==
    /\ Len(entries) = Len(methods)
    /\ \A n \in 1 .. Len(methods) :
            Cardinality({k \in 1 .. Len(entries) : entries[k].name = methods[n][1]}) = 1
    /\ \A k \in 1 .. Len(entries) : DictHas(methods, entries[k].name)
    /\ \E k \in 1 .. Len(entries) :
            entries[k].name = "list_methods" /\ entries[k].builtin
    /\ \A k \in 1 .. Len(entries) : \A j \in 1 .. Len(entries) :
            k < j => NameRank(entries[k].name) < NameRank(entries[j].name)
    /\ \A k \in 1 .. Len(entries) :
            LET arg == RaisesArg(DictGet(methods, entries[k].name).handler)
            IN entries[k].raises = [j \in 1 .. Len(arg.types) |-> Code(arg.types[j])]

\* C27: list_methods served by a dispatcher returns one entry for every
\* method of the dispatcher's table and no other, the builtin ones included,
\* sorted ascending by name, the raises of each entry being the list of the
\* codes of the declared classes, also for a single class and for none
C27_ListMethods ==
    \A i \in DOMAIN items :
        RanBuiltin(i, "list_methods") =>
            LET out == ListMethods(_methods[items[i].req.handler.self])
            IN /\ items[i].resp.error = None
               /\ out.raised = ""
               /\ EntriesRight(_methods[items[i].req.handler.self], out.value)

\* the claim of C27 for the dispatchers on which list_methods returns (every
\* declared class has a code): what does hold
C27_WhenItReturns ==
    \A i \in DOMAIN items :
        (RanBuiltin(i, "list_methods") /\ items[i].resp.error = None) =>
            LET out == ListMethods(_methods[items[i].req.handler.self])
            IN /\ out.raised = ""
               /\ EntriesRight(_methods[items[i].req.handler.self], out.value)

\* list_methods did return on a version: foo.div with its one code, foo.mod
\* with its two, the builtin ones with none
C27_Returned ==
    \E i \in DOMAIN items :
        /\ RanBuiltin(i, "list_methods") /\ items[i].resp.error = None
        /\ items[i].req.handler.self = "v2"
        /\ LET v == ListMethods(_methods["v2"]).value
           IN /\ Len(v) = 4
              /\ v[1].name = "foo.div" /\ v[1].raises = << "error.division_by_zero" >>
              /\ v[2].raises = << "error.division_by_zero", "error.not_found" >>
              /\ v[3].raises = <<>>

\* C28 as the specification has it: list_versions returns one entry for every
\* registered APIVersion, in the order of registration, with its (major,
\* minor) and its deprecation flag
C28_RegistrationOrder ==
    \A i \in DOMAIN items :
        (RanBuiltin(i, "list_versions") /\ items[i].resp.error = None) =>
            ListVersions(_versions, depends_on) =
                [n \in 1 .. Len(depends_on) |->
                    [version |-> depends_on[n].version,
                     deprecated |-> depends_on[n].deprecated]]

\* C28: list_versions returns one entry for every (major, minor) that a
\* registered APIVersion has, ascending by (major, minor), with the
\* deprecation flag of the APIVersion of that version
C28_AscendingVersions ==
    \A i \in DOMAIN items :
        (RanBuiltin(i, "list_versions") /\ items[i].resp.error = None) =>
            LET out == ListVersions(_versions, depends_on)
            IN /\ {out[k].version : k \in 1 .. Len(out)} =
                        {depends_on[n].version : n \in 1 .. Len(depends_on)}
               /\ \A k \in 1 .. Len(out) : \A j \in 1 .. Len(out) :
                        k < j => /\ VersionLE(out[k].version, out[j].version)
                                 /\ out[k].version /= out[j].version
               /\ \A k \in 1 .. Len(out) :
                        \E n \in 1 .. Len(depends_on) :
                            /\ depends_on[n].version = out[k].version
                            /\ depends_on[n].deprecated = out[k].deprecated

\* (2, 1) was registered before (1, 0), and list_versions lists (1, 0) first
C28_Witness ==
    \E i \in DOMAIN items :
        /\ RanBuiltin(i, "list_versions") /\ items[i].resp.error = None
        /\ Len(depends_on) = 2
        /\ depends_on[1].version = <<2, 1>>
        /\ depends_on[2].version = <<1, 0>>
        /\ ListVersions(_versions, depends_on) =
                << [version |-> <<1, 0>>, deprecated |-> TRUE],
                   [version |-> <<2, 1>>, deprecated |-> FALSE] >>

\* the namespaces from the dispatcher down to the namespace of level k
PathTo(k) == [j \in 1 .. k |-> NsId(j)]

\* the handler of a MethodDef of dispatcher c is c's own or hangs below c on
\* a chain of enabled namespaces, none of them a dispatcher
Discoverable(c, md) ==
    \/ md.handler.self = c /\ md.namespaces = <<>>
    \/ /\ md.handler.self \in Namespaces
       /\ md.namespaces = PathTo(NsLevel(md.handler.self))
       /\ \A j \in 1 .. NsLevel(md.handler.self) : enabled[NsId(j)]

\* C29: after setup the table of a dispatcher has no handler that hangs
\* below a disabled namespace, at any depth, or below a child that is a
\* Dispatcher: no method of an APIVersion is in the table of the API, and an
\* unversioned request is never served by one; and no handler is in the
\* table twice
C29_NoHiddenHandlers ==
    phase = "ready" =>
        /\ \A c \in Dispatchers(depends_on) :
            /\ \A n \in 1 .. Len(_methods[c]) : Discoverable(c, _methods[c][n][2])
            /\ \A n \in 1 .. Len(_methods[c]) : \A k \in 1 .. Len(_methods[c]) :
                    _methods[c][n][2].handler = _methods[c][k][2].handler => n = k
        /\ \A n \in 1 .. Len(_methods["App"]) :
                _methods["App"][n][2].handler.self \notin VersionIds(depends_on)
        /\ \A i \in DOMAIN items :
                (/\ items[i].req /= None
                 /\ items[i].req.handler /= None
                 /\ items[i].raw.version = None) =>
                    /\ items[i].req.handler.self \notin VersionIds(depends_on)
                    /\ items[i].req.handler.self \in Namespaces =>
                            \A j \in 1 .. NsLevel(items[i].req.handler.self) :
                                enabled[NsId(j)]

\* foo.nested is disabled: the tables have foo.div but nothing of foo.nested
\* or below, and a request for its handler ended as an undefined method
C29_Witness ==
    /\ phase = "ready"
    /\ ~enabled[NsId(2)]
    /\ enabled[NsId(1)]
    /\ DictHas(_methods["App"], "foo.div")
    /\ \A n \in 1 .. Len(_methods["App"]) :
            _methods["App"][n][2].handler.name /= "get_nothing"
    /\ \E i \in DOMAIN items :
        /\ items[i].pc = "done"
        /\ items[i].raw.method = "nested.get_nothing"
        /\ items[i].resp.error /= None
        /\ items[i].resp.error.cls = "RPCUndefinedMethod"

\* a step after setup leaves the tables as they are and only appends to the
\* middlewares of a Request
DispatchFrame ==
    phase = "ready" =>
        /\ UNCHANGED <<_methods, _middlewares, _versions>>
        /\ \A i \in DOMAIN items \cap DOMAIN items' :
                (items[i].req /= None /\ items'[i].req /= None) =>
                    /\ Len(items'[i].req.middlewares) >= Len(items[i].req.middlewares)
                    /\ SubSeq(items'[i].req.middlewares, 1,
                              Len(items[i].req.middlewares)) = items[i].req.middlewares

\* C30: from setup on no dispatch, whether it succeeds, fails or is
\* cancelled, alone or beside others, changes the table of methods of a
\* dispatcher, the middleware list of a namespace or of a dispatcher, or the
\* table of versions of the API: dispatch only extends the middleware list
\* of its own Request
C30_TablesFrozen == [][DispatchFrame]_vars

\* two items of a batch were dispatched, one to a result and one to an
\* error, and the tables are what setup built
C30_Witness ==
    /\ Batched
    /\ Len(items) = 2
    /\ items[1].pc = "done" /\ items[1].resp.error /= None
    /\ items[2].pc = "done" /\ items[2].resp.error = None
    /\ items[2].req /= None /\ items[2].req.middlewares /= <<>>
    /\ _middlewares = [c \in Components(depends_on) |->
                            CollectMiddlewares(c, depends_on)]
    /\ _methods = [c \in Dispatchers(depends_on) |-> BuildMethods(c, depends_on)]
    /\ _versions = BuildVersions(depends_on)

\* a Response, or its dump, with an error has no result
AtMostOne(r) == r.error /= None => r.result = NoResult

\* the Response of the item is the one the wrapper built from the return
\* value of the handler
FromReturnValue(i) ==
    /\ items[i].pc \in {"up", "done"}
    /\ items[i].htask = "returned"
    /\ items[i].resp /= None

\* C31: every Response of dispatch and of the transport has at most one of
\* result and error: one with an error has a null result, also in the
\* encoded output, and one built from the return value of a handler has no
\* error
C31_ResultOrError ==
    /\ \A i \in DOMAIN items :
        /\ items[i].resp /= None => AtMostOne(items[i].resp)
        /\ FromReturnValue(i) =>
            /\ items[i].resp.error = None
            /\ items[i].resp.result = HandlerResult(items[i].req.handler.name)
    /\ (task = "returned" /\ json_request = Json) =>
        IF Single(json_response) THEN AtMostOne(json_response)
        ELSE \A n \in 1 .. Len(json_response) : AtMostOne(json_response[n])

\* a batch was answered with an error that has no result and a result that
\* has no error
C31_Witness ==
    /\ task = "returned"
    /\ Batched
    /\ Len(items) = 2
    /\ ~Single(json_response)
    /\ items[1].resp.error /= None /\ items[1].resp.result = NoResult
    /\ json_response[1].error /= None /\ json_response[1].result = NoResult
    /\ FromReturnValue(2)
    /\ json_response[2].error = None /\ json_response[2].result = "sum()"

\* the exception a triple of the wire stands for: an instance of the class
\* registered with its code, with its message and data, or the undefined one
Reconstructed(t) ==
    IF t.code \in DOMAIN registry
    THEN Instance(registry[t.code], t.code, t.message, t.data)
    ELSE Instance("UndefinedExc", "undefined", "Undefined exception", [original |-> t])

\* the entries of warnings of all the responses of a body, in order
RECURSIVE AllWarnings(_)
AllWarnings(list) ==
    IF list = <<>> THEN <<>>
    ELSE AllWarnings(SubSeq(list, 1, Len(list) - 1)) \o list[Len(list)].warnings

\* make_response did to the body what C32 says
AsClaimed(d, raised, out) ==
    /\ Len(out.warned) = Len(AllWarnings(d.value))
    /\ \A n \in 1 .. Len(out.warned) : out.warned[n] = Reconstructed(AllWarnings(d.value)[n])
    /\ IF d.list
       THEN /\ raised = ""
            /\ Len(out.returned) = Len(d.value)
            /\ \A n \in 1 .. Len(d.value) :
                IF d.value[n].error = None
                THEN out.returned[n] = d.value[n].result
                ELSE out.returned[n] = Reconstructed(d.value[n].error)
       ELSE IF d.value[1].error = None
       THEN raised = "" /\ out.returned = d.value[1].result
       ELSE /\ raised = Reconstructed(d.value[1].error).cls
            /\ out.thrown = Reconstructed(d.value[1].error)

\* C32: Client.make_response raises, for a single response, the exception
\* reconstructed from error when there is one and returns result otherwise;
\* for a batch it never raises and returns the list of the results, the
\* reconstructed exception standing for the result of a response with an
\* error; every entry of warnings of every response is emitted as a warning,
\* once, before the return or the raise
C32_MakeResponse ==
    exc_out.op = "make_response" => AsClaimed(exc_out.args, exc_out.raised, exc_out.value)

\* no warning and no error of the body has data with a key named as a
\* parameter of BaseExc.dispatch or of BaseExc.__init__
PlainData(d) ==
    \A n \in 1 .. Len(d.value) :
        /\ d.value[n].error /= None =>
                DOMAIN d.value[n].error.data \cap {"cls", "code", "message", "self"} = {}
        /\ \A k \in 1 .. Len(d.value[n].warnings) :
                DOMAIN d.value[n].warnings[k].data
                    \cap {"cls", "code", "message", "self"} = {}

\* the claim of C32 for the bodies without such a key: what does hold
C32_UnlessKeyword ==
    (exc_out.op = "make_response" /\ PlainData(exc_out.args)) =>
        AsClaimed(exc_out.args, exc_out.raised, exc_out.value)

\* a batch of an error and a result was turned into the list of the
\* exception and the result, after the three warnings of the two
C32_Returned ==
    /\ exc_out.op = "make_response"
    /\ exc_out.args.list
    /\ exc_out.raised = ""
    /\ Len(exc_out.args.value) = 2
    /\ exc_out.args.value[1].error /= None
    /\ exc_out.args.value[2].error = None
    /\ Len(exc_out.value.returned) = 2
    /\ exc_out.value.returned[1].cls = "RPCParseError"
    /\ exc_out.value.returned[2] = "3"
    /\ Len(exc_out.value.warned) = 3
    /\ exc_out.value.warned[3].cls = "RPCDeprecatedVersion"

\* the id handle_raw gives the Response of a payload: the id of the Request,
\* or what it recovers from a payload Request.load refused
ResponseId(raw) == IF Valid(raw) THEN raw.id ELSE RecoveredId(raw)

C33_EmptyBatch ==
    /\ task = "returned"
    /\ Batched
    /\ body.value = <<>>
    /\ json_response = <<>>

NoDuplicates(s) == \A a, b \in 1 .. Len(s) : s[a] = s[b] => a = b

\* the handler of the item was called
ReachedHandler(i) == items[i].htask /= "none"

\* every middleware of the scopes of the path is once in the list of the
\* Request and was entered once, and the item is past the call of its handler
OnceEach(i) ==
    /\ NoDuplicates(items[i].req.middlewares)
    /\ Range(items[i].req.middlewares) = ScopeMiddlewares(i)
    /\ NoDuplicates(items[i].entered)
    /\ Range(items[i].entered) = ScopeMiddlewares(i)
    /\ items[i].pc \notin {"load", "api", "lookup", "validate", "chain"}

\* a handler that was called is not called again
CalledOnce ==
    \A i \in DOMAIN items \cap DOMAIN items' :
        ReachedHandler(i) =>
            /\ items'[i].htask /= "none"
            /\ items'[i].hargs = items[i].hargs
            /\ items'[i].entered = items[i].entered
            /\ items'[i].pc = "await" => items[i].pc = "await"

\* C34: in a dispatch of a fresh Request that reaches the handler, every
\* middleware of every scope of the path (API, selected version, traversed
\* namespaces) is entered exactly once and the handler is called exactly
\* once, with and without a version: the middleware list of the Request
\* never has a middleware twice
C34_OnceEach ==
    /\ [](\A i \in DOMAIN items :
            /\ items[i].req /= None => NoDuplicates(items[i].req.middlewares)
            /\ ReachedHandler(i) => OnceEach(i))
    /\ [][CalledOnce]_vars

\* a versioned dispatch to foo.div returned: its eight middleware, of the API,
\* of the version and of foo, were entered once each
C34_Witness ==
    \E i \in DOMAIN items :
        /\ items[i].pc = "done"
        /\ items[i].htask = "returned"
        /\ items[i].raw.version /= None
        /\ items[i].req.handler.self = NsId(1)
        /\ Len(items[i].req.middlewares) = 8
        /\ Len(items[i].entered) = 8
        /\ Cardinality(Range(items[i].entered)) = 8

\* the dispatch of the item failed in one of its three checks: the version,
\* the method, the params
CheckFailed(i) ==
    /\ items[i].pc \in {"raised", "done"}
    /\ Failure(i) /= None
    /\ Failure(i).cls \in {"RPCUnsupportedVersion", "RPCUndefinedMethod", "RPCInvalidParams"}
    /\ Failure(i).by \in {"api", "dispatch"}

\* C35: when the resolution of the version or of the method or the
\* validation of the params fails, no middleware, of the API, of the version
\* or of a namespace, and no handler was invoked for the request: the three
\* checks come before the chain
C35_ChecksBeforeChain ==
    \A i \in DOMAIN items :
        CheckFailed(i) =>
            /\ items[i].entered = <<>>
            /\ items[i].exited = <<>>
            /\ items[i].chain = <<>>
            /\ items[i].depth = 0
            /\ items[i].htask = "none"
            /\ items[i].hargs = <<>>

\* a versioned request for foo.div with params the schema refuses was
\* answered with the invalid params, the middleware of the API, of the
\* version and of foo in its list and none of them entered
C35_Witness ==
    \E i \in DOMAIN items :
        /\ items[i].pc = "done"
        /\ items[i].resp.error /= None
        /\ items[i].resp.error.cls = "RPCInvalidParams"
        /\ items[i].raw.version /= None
        /\ Len(items[i].req.middlewares) = 8
        /\ items[i].entered = <<>>
        /\ items[i].htask = "none"

\* C36: the handler is called with the validated params merged with
\* request.injections, and a key both have comes with the injected value: a
\* param of the client never replaces what a middleware injected
C36_InjectionWins ==
    \A i \in DOMAIN items :
        ReachedHandler(i) =>
            /\ DOMAIN SchemaErrors(items[i].req.handler.info.schema, items[i].req.params) = {}
            /\ DOMAIN items[i].hargs =
                    DOMAIN items[i].req.params \cup DOMAIN items[i].req.injections
            /\ \A k \in DOMAIN items[i].req.injections :
                    items[i].hargs[k] = items[i].req.injections[k]
            /\ \A k \in DOMAIN items[i].req.params \ DOMAIN items[i].req.injections :
                    items[i].hargs[k] = items[i].req.params[k]

\* the client sent injection with scale, the injector injected 10, and the
\* handler was called with 10
C36_Witness ==
    \E i \in DOMAIN items :
        /\ ReachedHandler(i)
        /\ items[i].raw.method = "scale"
        /\ "injection" \in DOMAIN items[i].req.params
        /\ items[i].req.params["injection"] = "int"
        /\ "injection" \in DOMAIN items[i].req.injections
        /\ items[i].hargs["injection"] = "10"
        /\ items[i].hargs["x"] = "int"

\* handle_raw answered the item with an error that its dispatch raised
DispatchError(i) ==
    /\ items[i].pc = "done"
    /\ items[i].req /= None
    /\ items[i].resp.error /= None

\* C37: a response in which the transport reports an error raised during
\* dispatch has empty meta and no warnings: nothing of what a middleware does
\* to a response, no meta.version and no deprecation warning, also when a
\* deprecated version served the request
C37_BareErrorResponse ==
    \A i \in DOMAIN items :
        DispatchError(i) =>
            /\ items[i].resp.meta = EmptyMeta
            /\ items[i].resp.warnings = <<>>
            /\ Dump(items[i].resp).meta = EmptyMeta
            /\ Dump(items[i].resp).warnings = <<>>

\* a deprecated version served foo.div, set_version_info and the rest of the
\* chain were entered, the handler raised its declared error, and the
\* response has the error with empty meta and no warning
C37_Witness ==
    \E i \in DOMAIN items :
        /\ DispatchError(i)
        /\ Versioned(i)
        /\ depends_on[VIndex(depends_on, items[i].ctx)].deprecated
        /\ \E n \in 1 .. Len(items[i].entered) :
                items[i].entered[n].name = "set_version_info"
        /\ items[i].htask = "raised"
        /\ items[i].resp.error.cls = "DivisionByZero"
        /\ items[i].resp.meta = EmptyMeta
        /\ items[i].resp.warnings = <<>>

\* the item belongs to an exchange that arrived before setup or after shutdown
IssuedUnready(i) == items[i].issued /= "ready"

\* C38: the routing tables, the middleware lists and the table of versions
\* are there exactly from setup to shutdown, and a dispatch issued before
\* setup or after shutdown resolves no method and calls no handler and no
\* middleware
C38_TablesLive ==
    /\ attributes = IF phase = "ready" THEN TableNames ELSE {}
    /\ phase = "ready" =>
        /\ DOMAIN _methods = Dispatchers(depends_on)
        /\ DOMAIN _middlewares = Components(depends_on)
        /\ _versions = BuildVersions(depends_on)
    /\ phase /= "ready" =>
        /\ DOMAIN _methods = {}
        /\ DOMAIN _middlewares = {}
        /\ _versions = <<>>
    /\ \A i \in DOMAIN items :
        IssuedUnready(i) =>
            /\ items[i].req /= None =>
                /\ items[i].req.handler = None
                /\ items[i].req.middlewares = <<>>
            /\ items[i].chain = <<>>
            /\ items[i].entered = <<>>
            /\ items[i].htask = "none"
            /\ items[i].pc = "done" => items[i].resp.error /= None

\* after setup and shutdown a versioned request for foo.div arrived and was
\* answered with the internal error, nothing resolved and nothing called
C38_Witness ==
    /\ phase = "down"
    /\ task = "returned"
    /\ \E i \in DOMAIN items :
        /\ items[i].issued = "down"
        /\ items[i].raw.method = "foo.div"
        /\ items[i].raw.version /= None
        /\ items[i].pc = "done"
        /\ items[i].req.handler = None
        /\ items[i].resp.error.cls = "RPCInternalError"
        /\ items[i].entered = <<>>

\* C39: tsnow() right after shift(td) is what tsnow() would have returned at
\* that instant without the shift, plus td, whatever calls of goto, shift and
\* reset came before and however much real time passed between them; after
\* reset tsnow() is the real time.
C39_ShiftExact ==
    /\ timer_out.op = "shift" => timer_out.after = timer_out.before + timer_out.td
    /\ timer_out.op = "reset" => Tsnow(time, _current, _updated) = time

\* C39, where it holds: the shift of a Timer that is not moved, or whose last
\* goto or shift was at this same instant, moves tsnow() by td, and reset
\* brings tsnow() back to the real time.
C39_ExactAtOnce ==
    /\ [][(/\ timer_out'.op = "shift"
           /\ timer_out' /= timer_out
           /\ (_updated = None \/ _updated = << time >>))
          => timer_out'.after = timer_out'.before + timer_out'.td]_vars
    /\ [](timer_out.op = "reset" => Tsnow(time, _current, _updated) = time)

\* C39: a second shift at the instant of the first one has added to it
C39_Accumulated ==
    /\ timer_out.op = "shift"
    /\ timer_out.n = 2
    /\ timer_out.td = 0 - 10
    /\ _updated = << time >>
    /\ Tsnow(time, _current, _updated) = time - 5

====
